---- MODULE Spec2Model ----
(***************************************************************************)
(* Model of the statute indexing script src/open_ai_indexing.py (the same  *)
(* code is repeated in src/tei_indexing.py and src/qwen3_indexing.py):     *)
(* the loader filter, parse_text, get_text_from_structure, the emission    *)
(* loop with its two truncation rules, and the construction of the nodes.  *)
(*                                                                         *)
(* Text is a sequence of characters.  A character is a string; an ASCII    *)
(* character is itself, and a Vietnamese letter outside ASCII is written   *)
(* in the VNI convention, the base letter followed by the digits of its    *)
(* marks (1 acute, 2 grave, 3 hook above, 4 tilde, 5 dot below,            *)
(* 6 circumflex, 7 horn, 9 stroke): "D9" is D with stroke, "e62" is e with *)
(* circumflex and grave, "u7" is u with horn, "o75" is o with horn and dot *)
(* below.  Such a character is one code point, distinct from every ASCII   *)
(* letter and digit.                                                       *)
(***************************************************************************)
EXTENDS Integers, Sequences, FiniteSets, TLC

VARIABLES rows, data, r, pc, lines, i, hierarchy, current_chuong,
          current_dieu, current_khoan, current_muc, err,
          hierarchical_structures, e, documents, nodes, rendered, calls,
          frames, store

vars == <<rows, data, r, pc, lines, i, hierarchy, current_chuong,
          current_dieu, current_khoan, current_muc, err,
          hierarchical_structures, e, documents, nodes, rendered, calls,
          frames, store>>

(***************************************************************************)
(* Bounds of the checked inputs.                                           *)
(***************************************************************************)
MaxLines == 4
MaxDocs == 2
\* calls of get_text_from_structure after the script has run
MaxRenders == 2
\* lines of a text handed to one of two calls of parse_text that run together
MaxParLines == 2

(***************************************************************************)
(* Characters and character classes of Python's re module.                 *)
(***************************************************************************)
NL == "\n"
SP == " "
Digit == {"0", "1", "2", "3", "4", "5", "6", "7", "8", "9"}
AsciiLower == {"a", "b", "c", "d", "e", "f", "g", "h", "i", "j", "k", "l", "m",
               "n", "o", "p", "q", "r", "s", "t", "u", "v", "w", "x", "y", "z"}
AsciiUpper == {"A", "B", "C", "D", "E", "F", "G", "H", "I", "J", "K", "L", "M",
               "N", "O", "P", "Q", "R", "S", "T", "U", "V", "W", "X", "Y", "Z"}
\* \s, and the characters str.strip() removes
Whitespace == {SP, NL, "\t", "\r"}

\* upper case -> lower case, for the letters re.IGNORECASE folds
LowerPairs ==
    {<<"A", "a">>, <<"B", "b">>, <<"C", "c">>, <<"D", "d">>, <<"E", "e">>,
     <<"F", "f">>, <<"G", "g">>, <<"H", "h">>, <<"I", "i">>, <<"J", "j">>,
     <<"K", "k">>, <<"L", "l">>, <<"M", "m">>, <<"N", "n">>, <<"O", "o">>,
     <<"P", "p">>, <<"Q", "q">>, <<"R", "r">>, <<"S", "s">>, <<"T", "t">>,
     <<"U", "u">>, <<"V", "v">>, <<"W", "w">>, <<"X", "x">>, <<"Y", "y">>,
     <<"Z", "z">>, <<"D9", "d9">>, <<"U7", "u7">>, <<"O7", "o7">>,
     <<"E62", "e62">>}

Fold(c) == IF \E p \in LowerPairs : p[1] = c
           THEN (CHOOSE p \in LowerPairs : p[1] = c)[2]
           ELSE c

\* a character class under re.IGNORECASE
FoldIn(c, cls) == \E x \in cls : Fold(x) = Fold(c)

(***************************************************************************)
(* String primitives.                                                      *)
(***************************************************************************)
\* s[p:] (p is 1-based, the first character kept)
From(s, p) == SubSeq(s, p, Len(s))

\* s[:p] exclusive (the characters before position p)
Before(s, p) == SubSeq(s, 1, p - 1)

\* the literal w stands in s at position p
LitAt(s, p, w) ==
    /\ p >= 1
    /\ p + Len(w) - 1 <= Len(s)
    /\ \A k \in 1..Len(w) : s[p + k - 1] = w[k]

\* the same, under re.IGNORECASE
FoldLitAt(s, p, w) ==
    /\ p >= 1
    /\ p + Len(w) - 1 <= Len(s)
    /\ \A k \in 1..Len(w) : Fold(s[p + k - 1]) = Fold(w[k])

\* greedy run X* from position p: the position after the run
RunEnd(s, p, cls) ==
    CHOOSE q \in p..(Len(s) + 1) :
        /\ \A k \in p..(q - 1) : s[k] \in cls
        /\ (q = Len(s) + 1 \/ s[q] \notin cls)

\* str.strip(chars)
StripChars(s, cls) ==
    LET a == RunEnd(s, 1, cls)
        b == IF a > Len(s) THEN a - 1
             ELSE CHOOSE q \in a..Len(s) :
                      /\ s[q] \notin cls
                      /\ \A k \in (q + 1)..Len(s) : s[k] \in cls
    IN  SubSeq(s, a, b)

\* str.strip()
Strip(s) == StripChars(s, Whitespace)

\* w in s
Contains(s, w) == \E p \in 1..(Len(s) + 1) : LitAt(s, p, w)

\* str.split("\n")
RECURSIVE Split(_)
Split(s) ==
    IF \A k \in 1..Len(s) : s[k] # NL THEN <<s>>
    ELSE LET p == CHOOSE q \in 1..Len(s) :
                      s[q] = NL /\ \A k \in 1..(q - 1) : s[k] # NL
         IN  <<Before(s, p)>> \o Split(From(s, p + 1))

\* str.replace(old, new), old non-empty
RECURSIVE Replace(_, _, _)
Replace(s, old, new) ==
    IF ~Contains(s, old) THEN s
    ELSE LET p == CHOOSE q \in 1..Len(s) :
                      LitAt(s, q, old) /\ \A k \in 1..(q - 1) : ~LitAt(s, k, old)
         IN  Before(s, p) \o new \o Replace(From(s, p + Len(old)), old, new)

\* "\n".join(ls) for the inputs
RECURSIVE JoinLines(_)
JoinLines(ls) ==
    IF Len(ls) = 0 THEN <<>>
    ELSE IF Len(ls) = 1 THEN ls[1]
    ELSE ls[1] \o <<NL>> \o JoinLines(Tail(ls))

(***************************************************************************)
(* Literals of the source.                                                 *)
(***************************************************************************)
\* "Chuong" with horns, the keyword of CHUONG_PATTERN
ChuongKw == <<"C", "h", "u7", "o7", "n", "g">>
\* "Dieu" with its marks, the keyword of DIEU_PATTERN and of the renderer
DieuKw == <<"D9", "i", "e62", "u">>
\* the ASCII labels stored in the tree
DieuAscii == <<"D", "i", "e", "u">>
KhoanAscii == <<"K", "h", "o", "a", "n">>
MucAscii == <<"M", "u", "c">>
Chuong0 == <<"C", "h", "u", "o", "n", "g", " ", "0">>
\* "Khoan " and "Diem " with their marks, the annotations of kdm=True
KhoanAnnotation == <<"K", "h", "o", "a3", "n", " ">>
DiemAnnotation == <<"D9", "i", "e63", "m", " ">>
\* "Muc " with its mark, the head of the sub-heading marker
MucMarkerKw == <<"M", "u5", "c", " ">>
\* "Luat nay ", "da ", "duoc Quoc hoi" with their marks
LuatNay == <<"L", "u", "a65", "t", " ", "n", "a2", "y", " ">>
DaOpt == <<"d9", "a4", " ">>
DuocQuocHoi == <<"d9", "u7", "o75", "c", " ", "Q", "u", "o61", "c", " ",
                 "h", "o65", "i">>
\* "moi nhat" and "sua doi" with their marks, the words of the loader filter
MoiNhat == <<"m", "o71", "i", " ", "n", "h", "a61", "t">>
SuaDoi == <<"s", "u73", "a", " ", "d9", "o63", "i">>

Roman == {"I", "V", "X", "L", "C", "D", "M"}
\* [a-z<d with stroke>]
LowerLetter == AsciiLower \cup {"d9"}
\* [a-z<d with stroke>A-Z<D with stroke>]
AnyLetter == AsciiLower \cup AsciiUpper \cup {"d9", "D9"}

(***************************************************************************)
(* The four patterns, on a stripped line.                                  *)
(***************************************************************************)
\* CHUONG_PATTERN.match(line)
ChuongMatch(line) ==
    /\ FoldLitAt(line, 1, ChuongKw)
    /\ LET q == RunEnd(line, Len(ChuongKw) + 1, Whitespace)
       IN  /\ q > Len(ChuongKw) + 1
           /\ q <= Len(line)
           /\ (FoldIn(line[q], Roman) \/ line[q] \in Digit)

\* where the number of DIEU_PATTERN starts (after the keyword and \s+)
DieuNumStart(line) == RunEnd(line, Len(DieuKw) + 1, Whitespace)

\* DIEU_PATTERN.match(line)
DieuMatch(line) ==
    /\ FoldLitAt(line, 1, DieuKw)
    /\ DieuNumStart(line) > Len(DieuKw) + 1
    /\ RunEnd(line, DieuNumStart(line), Digit) > DieuNumStart(line)

\* dieu_match.end(), as the position of the first character after the match
DieuEnd(line) ==
    LET d == RunEnd(line, DieuNumStart(line), Digit)
    IN  IF d <= Len(line) /\ FoldIn(line[d], LowerLetter) THEN d + 1 ELSE d

\* dieu_match.group(1)
DieuNumber(line) == SubSeq(line, DieuNumStart(line), DieuEnd(line) - 1)

\* line[dieu_match.end():].strip(". ").strip()
DieuContent(line) == Strip(StripChars(From(line, DieuEnd(line)), {".", SP}))

\* KHOAN_PATTERN.match(line)
KhoanMatch(line) ==
    LET d == RunEnd(line, 1, Digit)
    IN  d > 1 /\ d <= Len(line) /\ line[d] = "."

\* group(2) with the white space after the period left in
KhoanContentUnskipped(line) == From(line, RunEnd(line, 1, Digit) + 1)

\* khoan_match.group(1), group(2)
KhoanNumber(line) == SubSeq(line, 1, RunEnd(line, 1, Digit) - 1)
KhoanContent(line) ==
    From(line, RunEnd(line, RunEnd(line, 1, Digit) + 1, Whitespace))

\* MUC_PATTERN.match(line)
MucMatch(line) ==
    Len(line) >= 2 /\ line[1] \in AnyLetter /\ line[2] = ")"

\* muc_match.group(1), group(2)
MucLetter(line) == <<line[1]>>
MucContent(line) == From(line, RunEnd(line, 3, Whitespace))

(***************************************************************************)
(* The tree.  A node is a Python dict, here a record with the same keys;   *)
(* a list is a sequence.  A reference to a node of the tree under          *)
(* construction is the path of list indices that leads to it: <<c>> is     *)
(* hierarchy[c], <<c, d>> is hierarchy[c].Dieu[d], and so on.  Lists only  *)
(* grow at their end, so a path keeps naming the same node.                *)
(***************************************************************************)
None == <<>>

NewChuong(title) == [Chuong |-> title, Dieu |-> <<>>]
NewDieu(number, content) ==
    [Dieu |-> DieuAscii \o <<SP>> \o number, Content |-> content, Khoan |-> <<>>]
NewKhoan(number, content) ==
    [Khoan |-> KhoanAscii \o <<SP>> \o number, Content |-> content, Muc |-> <<>>]
NewMuc(letter, content) ==
    [Muc |-> MucAscii \o <<SP>> \o letter, Content |-> content]
NewPreamble(line) == [Preamble |-> line]

\* key in d
HasKey(d, key) == key \in DOMAIN d

\* d.get("Content", "")
GetContent(d) == IF HasKey(d, "Content") THEN d.Content ELSE <<>>

\* d["Content"] = v, on a dict that may not have the key yet
SetContent(d, v) == [k \in DOMAIN d \cup {"Content"} |->
                        IF k = "Content" THEN v ELSE d[k]]

\* the nodes the references name
DieuAt(h, dp) == h[dp[1]].Dieu[dp[2]]
KhoanAt(h, kp) == h[kp[1]].Dieu[kp[2]].Khoan[kp[3]]
MucAt(h, mp) == h[mp[1]].Dieu[mp[2]].Khoan[mp[3]].Muc[mp[4]]

\* an element of hierarchy compared with a str: every element is a dict
\* (lines 28, 47, 93), and a dict never equals a str
DictEqualsStr(d, str) == FALSE

\* "Preamble" not in hierarchy: list membership, by equality with each element
PreambleNotIn(h) ==
    ~\E k \in 1..Len(h) : DictEqualsStr(h[k], <<"P", "r", "e", "a", "m", "b", "l", "e">>)

(***************************************************************************)
(* parse_text, one loop iteration per step.                                *)
(***************************************************************************)
InLoop == pc = "parse" /\ i <= Len(lines)

\* line = line.strip()
Line == Strip(lines[i])

\* the guards of the four branches, in the order of the source
ChuongGuard == ChuongMatch(Line)
DieuGuard == DieuMatch(Line)
\* the Khoan branch taken on the pattern alone
KhoanGuardPatternOnly == KhoanMatch(Line)

KhoanGuard == KhoanMatch(Line) /\ current_dieu # None

\* the Muc branch taken on the pattern alone
MucGuardPatternOnly == MucMatch(Line)

MucGuard == MucMatch(Line) /\ current_khoan # None

\* an exception ends the script
Raise ==
    /\ err' = TRUE
    /\ pc' = "error"
    /\ UNCHANGED <<rows, data, r, lines, i, hierarchy, current_chuong,
                   current_dieu, current_khoan, current_muc,
                   hierarchical_structures, e, documents, nodes, rendered, calls, frames, store>>

Outside == <<rows, data, r, pc, lines, err, hierarchical_structures, e,
             documents, nodes, rendered, calls, frames, store>>

\* if not line: continue
SkipBlank ==
    /\ InLoop
    /\ Line = <<>>
    /\ i' = i + 1
    /\ UNCHANGED <<hierarchy, current_chuong, current_dieu, current_khoan,
                   current_muc>>
    /\ UNCHANGED Outside

\* the Chuong header forgets to close the open Dieu
DieuAfterChuongKept == current_dieu

\* line 29: what a Chuong header leaves in current_dieu
DieuAfterChuong == None

\* the Chuong header forgets to close the open Khoan
KhoanAfterChuongKept == current_khoan

\* line 30: what a Chuong header leaves in current_khoan
KhoanAfterChuong == None

\* the Dieu header forgets to close the open Khoan
KhoanAfterDieuKept == current_khoan

\* line 49: what a Dieu header leaves in current_khoan
KhoanAfterDieu == None

\* the Dieu header forgets to close the open Muc
MucAfterDieuKept == current_muc

\* line 50: what a Dieu header leaves in current_muc
MucAfterDieu == None

\* the Clause line forgets to close the open Muc
MucAfterKhoanKept == current_muc

\* line 64: what a Clause line leaves in current_muc
MucAfterKhoan == None

ChuongLine ==
    /\ InLoop
    /\ Line # <<>>
    /\ ChuongGuard
    /\ hierarchy' = Append(hierarchy, NewChuong(Line))
    /\ current_chuong' = <<Len(hierarchy) + 1>>
    /\ current_dieu' = DieuAfterChuong
    /\ current_khoan' = KhoanAfterChuong
    /\ current_muc' = None
    /\ i' = i + 1
    /\ UNCHANGED Outside

\* a Dieu whose label the last Dieu of the open chapter already has is not
\* appended again
DieuAttachDedup(h, cp, dieu) ==
    LET h1 == IF cp = None THEN Append(h, NewChuong(Chuong0)) ELSE h
        cp1 == IF cp = None THEN <<Len(h) + 1>> ELSE cp
        ds == h1[cp1[1]].Dieu
        dup == Len(ds) > 0 /\ ds[Len(ds)].Dieu = dieu.Dieu
    IN  [hierarchy |-> IF dup THEN h1
                       ELSE [h1 EXCEPT ![cp1[1]].Dieu = Append(@, dieu)],
         current_chuong |-> cp1,
         current_dieu |-> <<cp1[1], IF dup THEN Len(ds) ELSE Len(ds) + 1>>]

\* a default Chuong is made for every Dieu, open Chuong or not
DieuAttachOwnChapter(h, cp, dieu) ==
    LET h1 == Append(h, NewChuong(Chuong0))
        cp1 == <<Len(h) + 1>>
    IN  [hierarchy |-> [h1 EXCEPT ![cp1[1]].Dieu = Append(@, dieu)],
         current_chuong |-> cp1,
         current_dieu |-> <<cp1[1], Len(h1[cp1[1]].Dieu) + 1>>]

\* the Dieu is appended to the first Chuong of the roots, not to the open one
DieuAttachFirstChapter(h, cp, dieu) ==
    LET h1 == IF cp = None THEN Append(h, NewChuong(Chuong0)) ELSE h
        cp1 == IF cp = None THEN <<Len(h) + 1>>
               ELSE <<CHOOSE c \in 1..Len(h) :
                         /\ HasKey(h[c], "Chuong")
                         /\ \A y \in 1..(c - 1) : ~HasKey(h[y], "Chuong")>>
    IN  [hierarchy |-> [h1 EXCEPT ![cp1[1]].Dieu = Append(@, dieu)],
         current_chuong |-> IF cp = None THEN cp1 ELSE cp,
         current_dieu |-> <<cp1[1], Len(h1[cp1[1]].Dieu) + 1>>]

\* lines 44-48: the hierarchy and the open chapter once the Dieu is attached
DieuAttach(h, cp, dieu) ==
    LET h1 == IF cp = None THEN Append(h, NewChuong(Chuong0)) ELSE h
        cp1 == IF cp = None THEN <<Len(h) + 1>> ELSE cp
    IN  [hierarchy |-> [h1 EXCEPT ![cp1[1]].Dieu = Append(@, dieu)],
         current_chuong |-> cp1,
         current_dieu |-> <<cp1[1], Len(h1[cp1[1]].Dieu) + 1>>]

\* lines 37-48 on the line read
DieuAttached ==
    DieuAttach(hierarchy, current_chuong,
               NewDieu(DieuNumber(Line), DieuContent(Line)))

DieuLine ==
    /\ InLoop
    /\ Line # <<>>
    /\ ~ChuongGuard
    /\ DieuGuard
    /\ hierarchy' = DieuAttached.hierarchy
    /\ current_chuong' = DieuAttached.current_chuong
    /\ current_dieu' = DieuAttached.current_dieu
    /\ current_khoan' = KhoanAfterDieu
    /\ current_muc' = MucAfterDieu
    /\ i' = i + 1
    /\ UNCHANGED Outside

KhoanLine ==
    /\ InLoop
    /\ Line # <<>>
    /\ ~ChuongGuard
    /\ ~DieuGuard
    /\ KhoanGuard
    /\ IF current_dieu = None
       THEN Raise    \* None["Khoan"]: TypeError
       ELSE /\ hierarchy' =
                   [hierarchy EXCEPT
                       ![current_dieu[1]].Dieu[current_dieu[2]].Khoan =
                           Append(@, NewKhoan(KhoanNumber(Line), KhoanContent(Line)))]
            /\ current_khoan' =
                   current_dieu \o <<Len(DieuAt(hierarchy, current_dieu).Khoan) + 1>>
            /\ current_muc' = MucAfterKhoan
            /\ i' = i + 1
            /\ UNCHANGED <<current_chuong, current_dieu>>
            /\ UNCHANGED Outside

MucLine ==
    /\ InLoop
    /\ Line # <<>>
    /\ ~ChuongGuard
    /\ ~DieuGuard
    /\ ~KhoanGuard
    /\ MucGuard
    /\ IF current_khoan = None
       THEN Raise    \* None["Muc"]: TypeError
       ELSE /\ hierarchy' =
                   [hierarchy EXCEPT
                       ![current_khoan[1]].Dieu[current_khoan[2]]
                            .Khoan[current_khoan[3]].Muc =
                           Append(@, NewMuc(MucLetter(Line), MucContent(Line)))]
            /\ current_muc' =
                   current_khoan \o <<Len(KhoanAt(hierarchy, current_khoan).Muc) + 1>>
            /\ i' = i + 1
            /\ UNCHANGED <<current_chuong, current_dieu, current_khoan>>
            /\ UNCHANGED Outside

\* lines 92-95: content before any Chuong or Dieu
PreambleAppend(h, line) ==
    IF PreambleNotIn(h)
    THEN [ok |-> TRUE, hierarchy |-> Append(h, NewPreamble(line))]
    ELSE IF Len(h) > 0 /\ HasKey(h[Len(h)], "Preamble")
    THEN [ok |-> TRUE,
          hierarchy |-> [h EXCEPT ![Len(h)].Preamble = @ \o <<SP>> \o line]]
    ELSE [ok |-> FALSE, hierarchy |-> h]    \* IndexError or KeyError

\* lines 80-95: the hierarchy after the plain line is added to the innermost
\* open node
PlainAppend(h, cp, dp, kp, mp, line) ==
    IF mp # None
    THEN [ok |-> TRUE,
          hierarchy |-> [h EXCEPT ![mp[1]].Dieu[mp[2]].Khoan[mp[3]].Muc[mp[4]].Content =
                                      @ \o <<SP>> \o line]]
    ELSE IF kp # None
    THEN [ok |-> TRUE,
          hierarchy |-> [h EXCEPT ![kp[1]].Dieu[kp[2]].Khoan[kp[3]].Content =
                                      @ \o <<SP>> \o line]]
    ELSE IF dp # None
    THEN [ok |-> TRUE,
          hierarchy |-> [h EXCEPT ![dp[1]].Dieu[dp[2]].Content = @ \o <<SP>> \o line]]
    ELSE IF cp # None
    THEN [ok |-> TRUE,
          hierarchy |-> [h EXCEPT ![cp[1]] =
                                      SetContent(@, GetContent(@) \o <<SP>> \o line)]]
    ELSE PreambleAppend(h, line)

PlainLine ==
    /\ InLoop
    /\ Line # <<>>
    /\ ~ChuongGuard
    /\ ~DieuGuard
    /\ ~KhoanGuard
    /\ ~MucGuard
    /\ LET res == PlainAppend(hierarchy, current_chuong, current_dieu,
                              current_khoan, current_muc, Line)
       IN  IF res.ok
           THEN /\ hierarchy' = res.hierarchy
                /\ i' = i + 1
                /\ UNCHANGED <<current_chuong, current_dieu, current_khoan,
                               current_muc>>
                /\ UNCHANGED Outside
           ELSE Raise

ParseStep == SkipBlank \/ ChuongLine \/ DieuLine \/ KhoanLine \/ MucLine \/ PlainLine

(***************************************************************************)
(* get_text_from_structure.                                                *)
(***************************************************************************)
RECURSIVE ConcatAll(_)
ConcatAll(ss) == IF Len(ss) = 0 THEN <<>> ELSE Head(ss) \o ConcatAll(Tail(ss))

\* dieu["Dieu"].replace("Dieu", <DieuKw>)
ArticleName(dieu) == Replace(dieu.Dieu, DieuAscii, DieuKw)

\* the clause annotation written whatever kdm is
ClauseAnnotationAlways(kdm) == KhoanAnnotation

ClauseAnnotation(kdm) == IF kdm THEN KhoanAnnotation ELSE <<>>
ItemAnnotation(kdm) == IF kdm THEN DiemAnnotation ELSE <<>>
ClausePrefix(dieu, kdm) == IF kdm THEN ArticleName(dieu) \o <<SP>> ELSE <<>>

\* khoan['Khoan'].replace('Khoan ', clause_annotation)
ClauseLabel(khoan, kdm) ==
    Replace(khoan.Khoan, KhoanAscii \o <<SP>>, ClauseAnnotation(kdm))

\* line 124
ClauseLineText(dieu, khoan, kdm) ==
    ClauseLabel(khoan, kdm) \o <<".", SP>> \o ClausePrefix(dieu, kdm)
        \o khoan.Content \o <<NL>>

\* the item prefix without the article prefix
ItemPrefixClauseOnly(dieu, khoan, kdm) ==
    IF kdm THEN ClauseLabel(khoan, kdm) \o <<SP, SP>> ELSE <<>>

\* lines 125-126; item_prefix is "" until a clause sets it under kdm
ItemPrefix(dieu, khoan, kdm) ==
    IF kdm
    THEN ClauseLabel(khoan, kdm) \o <<SP>> \o ClausePrefix(dieu, kdm) \o <<SP>>
    ELSE <<>>

\* the item line without its line break
ItemLineTextUnterminated(dieu, khoan, muc, kdm) ==
    Replace(muc.Muc, MucAscii \o <<SP>>, ItemAnnotation(kdm)) \o <<")", SP>>
        \o ItemPrefix(dieu, khoan, kdm) \o muc.Content

\* line 129
ItemLineText(dieu, khoan, muc, kdm) ==
    Replace(muc.Muc, MucAscii \o <<SP>>, ItemAnnotation(kdm)) \o <<")", SP>>
        \o ItemPrefix(dieu, khoan, kdm) \o muc.Content \o <<NL>>

\* one iteration of the loop of line 123
KhoanText(dieu, khoan, kdm) ==
    ClauseLineText(dieu, khoan, kdm)
        \o ConcatAll([m \in 1..Len(khoan.Muc) |->
                         ItemLineText(dieu, khoan, khoan.Muc[m], kdm)])

get_text_from_structure(dieu, kdm) ==
    LET head == ArticleName(dieu) \o <<".", SP>> \o dieu.Content \o <<NL>>
    IN  head \o ConcatAll([k \in 1..Len(dieu.Khoan) |->
                              KhoanText(dieu, dieu.Khoan[k], kdm)])

(***************************************************************************)
(* The two truncation rules of the emission loop.  A position p of a text  *)
(* s is the point before s[p]; Len(s) + 1 is the end of s.                 *)
(***************************************************************************)
\* where "$" matches without re.MULTILINE: at the end, and before a final "\n"
Dollar(s) ==
    {Len(s) + 1} \cup (IF Len(s) > 0 /\ s[Len(s)] = NL THEN {Len(s)} ELSE {})

\* the ends of the matches of "Muc [0-9]+[a-z<d9>]?. " that start at p
\* ("." is any character but "\n")
MucMarkerEnds(s, p) ==
    IF ~LitAt(s, p, MucMarkerKw) THEN {}
    ELSE LET a == p + Len(MucMarkerKw)
         IN  {q \in (a + 3)..(Len(s) + 1) :
                \E d \in (a + 1)..(q - 2), l \in {0, 1} :
                    /\ q = d + l + 2
                    /\ \A k \in a..(d - 1) : s[k] \in Digit
                    /\ (l = 1 => s[d] \in LowerLetter)
                    /\ s[d + l] # NL
                    /\ s[d + l + 1] = SP}

\* re.search("Muc [0-9]+[a-z<d9>]?. ", s)
SearchMuc(s) == \E p \in 1..Len(s) : MucMarkerEnds(s, p) # {}

\* the end of the match of "Muc [0-9]+[a-z<d9>]?. .+?$" that starts at p, or 0:
\* ".+?" takes one character or more, none of them "\n", up to the first "$"
SubMucEnd(s, p) ==
    LET ends == {x \in Dollar(s) :
                    \E q \in MucMarkerEnds(s, p) :
                        x > q /\ \A k \in q..(x - 1) : s[k] # NL}
    IN  IF ends = {} THEN 0
        ELSE CHOOSE x \in ends : \A y \in ends : x <= y

\* re.sub("Muc [0-9]+[a-z<d9>]?. .+?$", "", s): the leftmost match is removed;
\* it ends at a "$", after which only a final "\n" can remain, so it is the
\* only match
SubMuc(s) ==
    IF \A p \in 1..Len(s) : SubMucEnd(s, p) = 0 THEN s
    ELSE LET p == CHOOSE x \in 1..Len(s) :
                      SubMucEnd(s, x) # 0 /\ \A y \in 1..(x - 1) : SubMucEnd(s, y) = 0
         IN  Before(s, p) \o From(s, SubMucEnd(s, p))

\* lines 143-145
Rule1(s) == IF SearchMuc(s) THEN SubMuc(s) ELSE s

\* the end of the match of "Luat nay (da )?duoc Quoc hoi" that starts at p, or 0
LuatMarkerEnd(s, p) ==
    IF ~LitAt(s, p, LuatNay) THEN 0
    ELSE LET a == p + Len(LuatNay)
         IN  IF LitAt(s, a, DaOpt) /\ LitAt(s, a + Len(DaOpt), DuocQuocHoi)
             THEN a + Len(DaOpt) + Len(DuocQuocHoi)
             ELSE IF LitAt(s, a, DuocQuocHoi) THEN a + Len(DuocQuocHoi)
             ELSE 0

\* re.search("Luat nay (da )?duoc Quoc hoi", s)
SearchLuat(s) == \E p \in 1..Len(s) : LuatMarkerEnd(s, p) # 0

\* the end of the match of "Luat nay (da )?duoc Quoc hoi.+?$" under re.DOTALL
\* that starts at p, or 0: ".+?" takes one character or more, of any kind, up
\* to the first "$"
SubLuatEnd(s, p) ==
    LET q == LuatMarkerEnd(s, p)
        ends == {x \in Dollar(s) : x > q}
    IN  IF q = 0 \/ ends = {} THEN 0
        ELSE CHOOSE x \in ends : \A y \in ends : x <= y

\* re.sub("Luat nay (da )?duoc Quoc hoi.+?$", "", s, flags=re.DOTALL)
SubLuat(s) ==
    IF \A p \in 1..Len(s) : SubLuatEnd(s, p) = 0 THEN s
    ELSE LET p == CHOOSE x \in 1..Len(s) :
                      SubLuatEnd(s, x) # 0 /\ \A y \in 1..(x - 1) : SubLuatEnd(s, y) = 0
         IN  Before(s, p) \o From(s, SubLuatEnd(s, p))

\* the text is stripped when the enactment marker is absent
Rule2Stripping(s) == IF SearchLuat(s) THEN SubLuat(s) ELSE Strip(s)

\* lines 146-152
Rule2(s) == IF SearchLuat(s) THEN SubLuat(s) ELSE s

(***************************************************************************)
(* The script around parse_text: the loader filter, the dict of parsed     *)
(* laws, the emission loop and the nodes.  A dict is the sequence of its   *)
(* items in insertion order.                                               *)
(***************************************************************************)
\* the filter without its second condition
KeepSubjectLatestOnly(x) == Contains(x, MoiNhat)

\* lambda x: <MoiNhat> in x and <SuaDoi> not in x
KeepSubject(x) == Contains(x, MoiNhat) /\ ~Contains(x, SuaDoi)

\* data[data["subject"].apply(...)]
FilterRows(rs) == SelectSeq(rs, LAMBDA row : KeepSubject(row.subject))

\* d[key] = value: a key already present keeps its place and takes the value
DictSet(d, key, value) ==
    IF \E k \in 1..Len(d) : d[k].key = key
    THEN [k \in 1..Len(d) |-> IF d[k].key = key
                              THEN [key |-> key, value |-> value] ELSE d[k]]
    ELSE Append(d, [key |-> key, value |-> value])

\* the Dieu of the Chuong elements of one law, in the order of lines 135-140
RECURSIVE DieuOf(_)
DieuOf(h) ==
    IF Len(h) = 0 THEN <<>>
    ELSE (IF HasKey(Head(h), "Chuong") THEN Head(h).Dieu ELSE <<>>)
             \o DieuOf(Tail(h))

\* lines 141-152: the content of the record
PostProcess(s) == Rule2(Rule1(s))

\* the citation built the other way round
MakeDocLawFirst(dieu, law) ==
    [title |-> ArticleName(dieu),
     content |-> Rule2(Rule1(get_text_from_structure(dieu, FALSE))),
     citation |-> law \o <<SP>> \o ArticleName(dieu),
     law |-> law]

\* lines 141-158
MakeDoc(dieu, law) ==
    [title |-> ArticleName(dieu),
     content |-> PostProcess(get_text_from_structure(dieu, FALSE)),
     citation |-> ArticleName(dieu) \o <<SP>> \o law,
     law |-> law]

\* lines 135-161 for one law
DocsOfLaw(law, h) ==
    [k \in 1..Len(DieuOf(h)) |-> MakeDoc(DieuOf(h)[k], law)]

\* lines 169-177
MakeNode(c) ==
    [text |-> c.content,
     metadata |-> [name |-> c.title, type |-> DieuKw,
                   citation |-> c.citation, law |-> c.law]]

NoLocals ==
    /\ lines' = <<>>
    /\ i' = 0
    /\ hierarchy' = <<>>
    /\ current_chuong' = None
    /\ current_dieu' = None
    /\ current_khoan' = None
    /\ current_muc' = None

KeepLocals == UNCHANGED <<lines, i, hierarchy, current_chuong, current_dieu,
                          current_khoan, current_muc>>

\* lines 103-106
Load ==
    /\ pc = "load"
    /\ data' = FilterRows(rows)
    /\ hierarchical_structures' = <<>>
    /\ r' = 1
    /\ pc' = "rows"
    /\ KeepLocals
    /\ UNCHANGED <<rows, err, e, documents, nodes, rendered, calls, frames, store>>

\* line 108, the call: lines 12-18
CallParse ==
    /\ pc = "rows"
    /\ r <= Len(data)
    /\ lines' = Split(data[r].text)
    /\ i' = 1
    /\ hierarchy' = <<>>
    /\ current_chuong' = None
    /\ current_dieu' = None
    /\ current_khoan' = None
    /\ current_muc' = None
    /\ pc' = "parse"
    /\ UNCHANGED <<rows, data, r, err, hierarchical_structures, e, documents,
                   nodes, rendered, calls, frames, store>>

\* line 97 and the assignment of line 108
ReturnParse ==
    /\ pc = "parse"
    /\ i > Len(lines)
    /\ hierarchical_structures' =
           DictSet(hierarchical_structures, data[r].subject, hierarchy)
    /\ r' = r + 1
    /\ pc' = "rows"
    /\ NoLocals
    /\ UNCHANGED <<rows, data, err, e, documents, nodes, rendered, calls, frames, store>>

\* the loop of line 107 ends; lines 132-133
RowsDone ==
    /\ pc = "rows"
    /\ r > Len(data)
    /\ documents' = <<>>
    /\ e' = 1
    /\ pc' = "emit"
    /\ KeepLocals
    /\ UNCHANGED <<rows, data, r, err, hierarchical_structures, nodes, rendered, calls, frames, store>>

\* one iteration of the loop of line 134
EmitLaw ==
    /\ pc = "emit"
    /\ e <= Len(hierarchical_structures)
    /\ documents' = documents \o DocsOfLaw(hierarchical_structures[e].key,
                                           hierarchical_structures[e].value)
    /\ e' = e + 1
    /\ KeepLocals
    /\ UNCHANGED <<rows, data, r, pc, err, hierarchical_structures, nodes,
                   rendered, calls, frames, store>>

\* lines 166-178
BuildNodes ==
    /\ pc = "emit"
    /\ e > Len(hierarchical_structures)
    /\ nodes' = [k \in 1..Len(documents) |-> MakeNode(documents[k])]
    /\ pc' = "done"
    /\ KeepLocals
    /\ UNCHANGED <<rows, data, r, err, hierarchical_structures, e, documents,
                   rendered, calls, frames, store>>

\* the expansion of an earlier call stays switched on
CallRenderStickyKdm ==
    /\ pc = "done"
    /\ calls < MaxRenders
    /\ \E l \in 1..Len(hierarchical_structures), kdm \in BOOLEAN :
         \E a \in 1..Len(DieuOf(hierarchical_structures[l].value)) :
            LET dieu == DieuOf(hierarchical_structures[l].value)[a]
                sticky == kdm \/ (rendered # None /\ rendered.kdm)
            IN  rendered' = [dieu |-> dieu, kdm |-> kdm,
                             text |-> get_text_from_structure(dieu, sticky)]
    /\ calls' = calls + 1
    /\ KeepLocals
    /\ UNCHANGED <<rows, data, r, pc, err, hierarchical_structures, e,
                   documents, nodes, frames, store>>

\* a caller renders one Dieu of a parsed law, with either value of kdm; the
\* function assigns only to its own local names (lines 112-129), so nothing
\* but the returned text is new
CallRender ==
    /\ pc = "done"
    /\ calls < MaxRenders
    /\ \E l \in 1..Len(hierarchical_structures), kdm \in BOOLEAN :
         \E a \in 1..Len(DieuOf(hierarchical_structures[l].value)) :
            LET dieu == DieuOf(hierarchical_structures[l].value)[a]
            IN  rendered' = [dieu |-> dieu, kdm |-> kdm,
                             text |-> get_text_from_structure(dieu, kdm)]
    /\ calls' = calls + 1
    /\ KeepLocals
    /\ UNCHANGED <<rows, data, r, pc, err, hierarchical_structures, e,
                   documents, nodes, frames, store>>

(***************************************************************************)
(* The inputs.                                                             *)
(***************************************************************************)
\* "A <MoiNhat>", "B <MoiNhat>", "A <SuaDoi> <MoiNhat>", "A"
SubjA == <<"A", SP>> \o MoiNhat
SubjB == <<"B", SP>> \o MoiNhat
SubjAmended == <<"A", SP>> \o SuaDoi \o <<SP>> \o MoiNhat
SubjOld == <<"A">>
Subjects == {SubjA, SubjB, SubjAmended, SubjOld}

\* the lines the input texts are made of
BlankLn == <<SP>>
ChuongLn == ChuongKw \o <<SP, "I">>
DieuLn == DieuKw \o <<SP, "1", ".", SP, "P">>
KhoanLn == <<"1", ".", SP, "A">>
MucLn == <<"a", ")", SP, "B">>
SubHeadLn == MucMarkerKw \o <<"2", ".", SP, "Q">>
\* "Dieu 2a. Q." with its marks: a Dieu header whose title ends with a period
DieuDotLn == DieuKw \o <<SP, "2", "a", ".", SP, "Q", ".">>
EnactLn == LuatNay \o DuocQuocHoi \o <<SP, "k">>
MenuLines == {BlankLn, ChuongLn, DieuLn, KhoanLn, MucLn, SubHeadLn, EnactLn}

\* the texts of MaxLines lines or fewer
MenuTexts ==
    {JoinLines(ls) : ls \in UNION {[1..n -> MenuLines] : n \in 0..MaxLines}}

\* the texts of the inputs of several rows
RowTexts ==
    {JoinLines(<<DieuLn>>),
     JoinLines(<<MucLn, DieuLn, KhoanLn, DieuLn>>),
     JoinLines(<<KhoanLn>>),
     JoinLines(<<DieuDotLn>>)}

\* "Dieu 12d. Qu y", "10. A b", "D) c", "2. d" (with their marks, the letter
\* of the number a d with stroke, the letter of the Point a capital one)
RoundTripText ==
    JoinLines(<<DieuKw \o <<SP, "1", "2", "d9", ".", SP, "Q", "u", SP, "y">>,
                <<"1", "0", ".", SP, "A", SP, "b">>,
                <<"D9", ")", SP, "c">>,
                <<"2", ".", SP, "d">>>>)

SingleRows ==
    {<<[subject |-> SubjA, text |-> t]>> : t \in MenuTexts \cup {RoundTripText}}
ManyRows ==
    UNION {[1..n -> [subject : Subjects, text : RowTexts]] : n \in 0..MaxDocs}

Init ==
    /\ rows \in SingleRows \cup ManyRows
    /\ data = <<>>
    /\ r = 0
    /\ pc = "load"
    /\ lines = <<>>
    /\ i = 0
    /\ hierarchy = <<>>
    /\ current_chuong = None
    /\ current_dieu = None
    /\ current_khoan = None
    /\ current_muc = None
    /\ err = FALSE
    /\ hierarchical_structures = <<>>
    /\ e = 0
    /\ documents = <<>>
    /\ nodes = <<>>
    /\ rendered = None
    /\ calls = 0
    /\ frames = <<>>
    /\ store = <<>>

Next ==
    \/ Load
    \/ CallParse
    \/ ParseStep
    \/ ReturnParse
    \/ RowsDone
    \/ EmitLaw
    \/ BuildNodes
    \/ CallRender

Spec == Init /\ [][Next]_vars

(***************************************************************************)
(* Two calls of parse_text that run together.  The names of lines 12-18    *)
(* are local to a call, so each call has a frame of its own: a record of   *)
(* its lines, its position in them and its five builder names.  A step of  *)
(* a call is one iteration of the loop of line 18 on its frame.            *)
(***************************************************************************)
Callers == {1, 2}

\* lines 12-18: the frame when the loop starts
NewFrame(text) ==
    [lines |-> Split(text), i |-> 1, hierarchy |-> <<>>,
     current_chuong |-> None, current_dieu |-> None, current_khoan |-> None,
     current_muc |-> None, err |-> FALSE, returned |-> FALSE]

\* lines 19-95 on a frame: one iteration of the loop
ParseLine(f) ==
    LET line == Strip(f.lines[f.i])
        next == [f EXCEPT !.i = @ + 1]
    IN  IF line = <<>> THEN next
        ELSE IF ChuongMatch(line)
        THEN [next EXCEPT !.hierarchy = Append(@, NewChuong(line)),
                          !.current_chuong = <<Len(f.hierarchy) + 1>>,
                          !.current_dieu = None,
                          !.current_khoan = None,
                          !.current_muc = None]
        ELSE IF DieuMatch(line)
        THEN LET a == DieuAttach(f.hierarchy, f.current_chuong,
                                 NewDieu(DieuNumber(line), DieuContent(line)))
             IN  [next EXCEPT !.hierarchy = a.hierarchy,
                              !.current_chuong = a.current_chuong,
                              !.current_dieu = a.current_dieu,
                              !.current_khoan = None,
                              !.current_muc = None]
        ELSE IF KhoanMatch(line) /\ f.current_dieu # None
        THEN [next EXCEPT
                 !.hierarchy[f.current_dieu[1]].Dieu[f.current_dieu[2]].Khoan =
                     Append(@, NewKhoan(KhoanNumber(line), KhoanContent(line))),
                 !.current_khoan =
                     f.current_dieu
                         \o <<Len(DieuAt(f.hierarchy, f.current_dieu).Khoan) + 1>>,
                 !.current_muc = None]
        ELSE IF MucMatch(line) /\ f.current_khoan # None
        THEN [next EXCEPT
                 !.hierarchy[f.current_khoan[1]].Dieu[f.current_khoan[2]]
                      .Khoan[f.current_khoan[3]].Muc =
                     Append(@, NewMuc(MucLetter(line), MucContent(line))),
                 !.current_muc =
                     f.current_khoan
                         \o <<Len(KhoanAt(f.hierarchy, f.current_khoan).Muc) + 1>>]
        ELSE LET res == PlainAppend(f.hierarchy, f.current_chuong, f.current_dieu,
                                    f.current_khoan, f.current_muc, line)
             IN  IF res.ok THEN [next EXCEPT !.hierarchy = res.hierarchy]
                 ELSE [f EXCEPT !.err = TRUE]

\* the builder names of every call are those of the first call
LocalsShared(fs, p) == [fs[1] EXCEPT !.lines = fs[p].lines, !.i = fs[p].i,
                                     !.returned = fs[p].returned]

\* lines 12-16: the names a call reads and assigns are those of its own frame
Locals(fs, p) == fs[p]

\* one iteration of the loop of call p
ParStep(p) ==
    /\ pc = "par"
    /\ ~frames[p].returned
    /\ ~frames[p].err
    /\ frames[p].i <= Len(frames[p].lines)
    /\ frames' = [frames EXCEPT ![p] = ParseLine(Locals(frames, p))]
    /\ KeepLocals
    /\ UNCHANGED <<rows, data, r, pc, err, hierarchical_structures, e,
                   documents, nodes, rendered, calls, store>>

\* line 97 of call p
ParReturn(p) ==
    /\ pc = "par"
    /\ ~frames[p].returned
    /\ ~frames[p].err
    /\ frames[p].i > Len(frames[p].lines)
    /\ frames' = [frames EXCEPT ![p].returned = TRUE]
    /\ KeepLocals
    /\ UNCHANGED <<rows, data, r, pc, err, hierarchical_structures, e,
                   documents, nodes, rendered, calls, store>>

\* the texts handed to the two calls
ParLines == {ChuongLn, DieuLn, KhoanLn, MucLn}
ParTexts ==
    {JoinLines(ls) : ls \in UNION {[1..n -> ParLines] : n \in 0..MaxParLines}}

InitPar ==
    /\ frames \in [Callers -> {NewFrame(t) : t \in ParTexts}]
    /\ pc = "par"
    /\ rows = <<>>
    /\ data = <<>>
    /\ r = 0
    /\ lines = <<>>
    /\ i = 0
    /\ hierarchy = <<>>
    /\ current_chuong = None
    /\ current_dieu = None
    /\ current_khoan = None
    /\ current_muc = None
    /\ err = FALSE
    /\ hierarchical_structures = <<>>
    /\ e = 0
    /\ documents = <<>>
    /\ nodes = <<>>
    /\ rendered = None
    /\ calls = 0
    /\ store = <<>>

NextPar == \E p \in Callers : ParStep(p) \/ ParReturn(p)

SpecPar == InitPar /\ [][NextPar]_vars

\* the loop of line 18 run to its end on a frame, and parse_text as a whole:
\* one call run alone
RECURSIVE RunFrame(_)
RunFrame(f) ==
    IF f.err \/ f.i > Len(f.lines) THEN f ELSE RunFrame(ParseLine(f))
parse_text(text) == RunFrame(NewFrame(text)).hierarchy

(***************************************************************************)
(* Vocabulary of the properties.                                           *)
(***************************************************************************)
IsPrefix(a, b) == Len(a) <= Len(b) /\ SubSeq(b, 1, Len(a)) = a
EndsWith(s, w) == Len(w) <= Len(s) /\ SubSeq(s, Len(s) - Len(w) + 1, Len(s)) = w
Last(s) == s[Len(s)]

\* the nodes of a tree, by path
ChuongIdx(h) == {c \in 1..Len(h) : HasKey(h[c], "Chuong")}
PreambleIdx(h) == {c \in 1..Len(h) : HasKey(h[c], "Preamble")}
DieuPaths(h) == UNION {{<<c, d>> : d \in 1..Len(h[c].Dieu)} : c \in ChuongIdx(h)}
KhoanPaths(h) ==
    UNION {{dp \o <<k>> : k \in 1..Len(DieuAt(h, dp).Khoan)} : dp \in DieuPaths(h)}
MucPaths(h) ==
    UNION {{kp \o <<m>> : m \in 1..Len(KhoanAt(h, kp).Muc)} : kp \in KhoanPaths(h)}

\* the stripped j-th line of the text being parsed, and what the text alone
\* says of it: which lines are headers, and what is open when line k is read
Ln(j) == Strip(lines[j])
IsChuongHdr(j) == Ln(j) # <<>> /\ ChuongMatch(Ln(j))
IsDieuHdr(j) == Ln(j) # <<>> /\ ~ChuongMatch(Ln(j)) /\ DieuMatch(Ln(j))
IsHdr(j) == IsChuongHdr(j) \/ IsDieuHdr(j)
LastHdr(k) ==
    IF \E j \in 1..(k - 1) : IsHdr(j)
    THEN CHOOSE j \in 1..(k - 1) : IsHdr(j) /\ \A x \in (j + 1)..(k - 1) : ~IsHdr(x)
    ELSE 0
ChapterOpenAt(k) == LastHdr(k) # 0
ArticleOpenAt(k) == LastHdr(k) # 0 /\ IsDieuHdr(LastHdr(k))
ClauseOpenAt(k) ==
    ArticleOpenAt(k) /\ \E j \in (LastHdr(k) + 1)..(k - 1) : KhoanMatch(Ln(j))

\* the step reads a line and stays in the loop
LineStep == pc = "parse" /\ i <= Len(lines) /\ pc' = "parse" /\ i' = i + 1

\* the plain line is added to the free content of the last root, a Chuong
AddedToChapter(h, h2, line) ==
    /\ Len(h) > 0
    /\ HasKey(Last(h), "Chuong")
    /\ h2 = [h EXCEPT ![Len(h)] = SetContent(@, GetContent(@) \o <<SP>> \o line)]

\* the plain line went to a Preamble root, and the tree holds nothing else
AddedToPreamble(h, h2, line) ==
    /\ Len(h2) > 0
    /\ ChuongIdx(h2) = {}
    /\ HasKey(Last(h2), "Preamble")
    /\ EndsWith(Last(h2).Preamble, line)
    /\ \A c \in 1..Len(h) : c < Len(h2) => h2[c] = h[c]

(***************************************************************************)
(* C1.  A line that matches the Clause pattern while no Article is open    *)
(* (no header before it, or the last header before it is a Chuong header)  *)
(* creates no Clause node, nor any other Chuong, Dieu or Muc node: the     *)
(* whole line is added as plain content to the free content of the open    *)
(* Chuong, otherwise to Preamble content.                                  *)
(***************************************************************************)
C1_ClauseLineOutsideArticle ==
    /\ pc = "parse"
    /\ i <= Len(lines)
    /\ KhoanMatch(Ln(i))
    /\ ~ArticleOpenAt(i)

C1_NoClauseWithoutArticle ==
    [][C1_ClauseLineOutsideArticle =>
          /\ LineStep
          /\ KhoanPaths(hierarchy') = KhoanPaths(hierarchy)
          /\ DieuPaths(hierarchy') = DieuPaths(hierarchy)
          /\ MucPaths(hierarchy') = MucPaths(hierarchy)
          /\ ChuongIdx(hierarchy') = ChuongIdx(hierarchy)
          /\ IF ChapterOpenAt(i)
             THEN AddedToChapter(hierarchy, hierarchy', Ln(i))
             ELSE AddedToPreamble(hierarchy, hierarchy', Ln(i))]_vars

\* a Clause-pattern line was read after a Chuong header that follows a Dieu,
\* and sits in that Chuong's free content
C1_Witness ==
    /\ pc = "parse"
    /\ i > 3
    /\ IsDieuHdr(i - 3)
    /\ IsChuongHdr(i - 2)
    /\ KhoanMatch(Ln(i - 1))
    /\ Len(hierarchy) = 2
    /\ Len(hierarchy[1].Dieu) = 1
    /\ hierarchy[1].Dieu[1].Khoan = <<>>
    /\ GetContent(hierarchy[2]) = <<SP>> \o Ln(i - 1)

(***************************************************************************)
(* C2.  The root list holds at most one Preamble node and, if present, it  *)
(* is the first root.                                                      *)
(***************************************************************************)
C2_AtMostOnePreamble ==
    \A l \in 1..Len(hierarchical_structures) :
        LET h == hierarchical_structures[l].value
        IN  Cardinality(PreambleIdx(h)) <= 1 /\ PreambleIdx(h) \subseteq {1}

\* every Dieu of every parsed law
ParsedDieu ==
    UNION {{DieuOf(hierarchical_structures[l].value)[a] :
               a \in 1..Len(DieuOf(hierarchical_structures[l].value))} :
           l \in 1..Len(hierarchical_structures)}

\* the texts the emission loop hands to rule 1
RenderedTexts == {get_text_from_structure(d, FALSE) : d \in ParsedDieu}

\* where the first sub-heading marker starts
FirstMuc(s) ==
    CHOOSE p \in 1..Len(s) :
        MucMarkerEnds(s, p) # {} /\ \A x \in 1..(p - 1) : MucMarkerEnds(s, x) = {}

\* where the first enactment marker starts
FirstLuat(s) ==
    CHOOSE p \in 1..Len(s) :
        LuatMarkerEnd(s, p) # 0 /\ \A x \in 1..(p - 1) : LuatMarkerEnd(s, x) = 0

(***************************************************************************)
(* C3.  Rule 1 cuts a rendered text that holds the sub-heading marker at   *)
(* the start of the first marker: the result is exactly the text before    *)
(* it, wherever the marker stands.                                         *)
(***************************************************************************)
C3_Rule1CutsAtMarker ==
    \A s \in RenderedTexts :
        SearchMuc(s) => Rule1(s) = Before(s, FirstMuc(s))

(***************************************************************************)
(* C4.  Rule 2 cuts a text that holds the enactment marker at the start of *)
(* the first marker: the result is exactly the text before it, with no     *)
(* later line and no trailing line break.                                  *)
(***************************************************************************)
C4_Rule2CutsAtMarker ==
    \A s \in RenderedTexts :
        SearchLuat(Rule1(s)) =>
            Rule2(Rule1(s)) = Before(Rule1(s), FirstLuat(Rule1(s)))

\* the number or letter a stored label ends with: the label is the ASCII
\* keyword, a space, and the number
LabelNumber(label, kw) == From(label, Len(kw) + 2)

\* the lines of the expanded rendering, written out character by character;
\* sep stands between the clause number and the article prefix of a Point line
ExpandedPointLine(dieu, khoan, muc, sep) ==
    DiemAnnotation \o LabelNumber(muc.Muc, MucAscii) \o <<")", SP>>
        \o KhoanAnnotation \o LabelNumber(khoan.Khoan, KhoanAscii) \o sep
        \o DieuKw \o <<SP>> \o LabelNumber(dieu.Dieu, DieuAscii)
        \o <<SP, SP>> \o muc.Content \o <<NL>>
ExpandedClauseLine(dieu, khoan) ==
    KhoanAnnotation \o LabelNumber(khoan.Khoan, KhoanAscii) \o <<".", SP>>
        \o DieuKw \o <<SP>> \o LabelNumber(dieu.Dieu, DieuAscii) \o <<SP>>
        \o khoan.Content \o <<NL>>
ExpandedText(dieu, sep) ==
    DieuKw \o <<SP>> \o LabelNumber(dieu.Dieu, DieuAscii) \o <<".", SP>>
        \o dieu.Content \o <<NL>>
        \o ConcatAll([k \in 1..Len(dieu.Khoan) |->
              ExpandedClauseLine(dieu, dieu.Khoan[k])
                  \o ConcatAll([m \in 1..Len(dieu.Khoan[k].Muc) |->
                        ExpandedPointLine(dieu, dieu.Khoan[k],
                                          dieu.Khoan[k].Muc[m], sep)])])

(***************************************************************************)
(* C5, as claimed.  With kdm=True every Point line reads                   *)
(* "Diem <letter>) Khoan <clause number>. Dieu <article number>  <content>"*)
(* and a line break: the clause label with its period, the article prefix, *)
(* two spaces.                                                             *)
(***************************************************************************)
C5_PointLineWithPeriod ==
    (rendered # None /\ rendered.kdm) =>
        rendered.text = ExpandedText(rendered.dieu, <<".", SP>>)

(***************************************************************************)
(* C5, amended.  With kdm=True every Point line reads                      *)
(* "Diem <letter>) Khoan <clause number> Dieu <article number>  <content>" *)
(* and a line break: the clause label without the period of the clause     *)
(* line, one space, the article prefix, two spaces.                        *)
(***************************************************************************)
C5_PointLineNoPeriod ==
    (rendered # None /\ rendered.kdm) =>
        rendered.text = ExpandedText(rendered.dieu, <<SP>>)

\* a Dieu with a Khoan that has a Muc was rendered with kdm=True
C5_Witness ==
    /\ rendered # None
    /\ rendered.kdm
    /\ \E k \in 1..Len(rendered.dieu.Khoan) : Len(rendered.dieu.Khoan[k].Muc) > 0

\* what a node keeps when the tree grows: its label, its content as a prefix,
\* and its children at the head of its list, each kept in the same way
MucKept(a, b) == a.Muc = b.Muc /\ IsPrefix(a.Content, b.Content)
KhoanKept(a, b) ==
    /\ a.Khoan = b.Khoan
    /\ IsPrefix(a.Content, b.Content)
    /\ Len(a.Muc) <= Len(b.Muc)
    /\ \A m \in 1..Len(a.Muc) : MucKept(a.Muc[m], b.Muc[m])
DieuKept(a, b) ==
    /\ a.Dieu = b.Dieu
    /\ IsPrefix(a.Content, b.Content)
    /\ Len(a.Khoan) <= Len(b.Khoan)
    /\ \A k \in 1..Len(a.Khoan) : KhoanKept(a.Khoan[k], b.Khoan[k])
RootKept(a, b) ==
    IF HasKey(a, "Chuong")
    THEN /\ HasKey(b, "Chuong")
         /\ a.Chuong = b.Chuong
         /\ IsPrefix(GetContent(a), GetContent(b))
         /\ Len(a.Dieu) <= Len(b.Dieu)
         /\ \A d \in 1..Len(a.Dieu) : DieuKept(a.Dieu[d], b.Dieu[d])
    ELSE /\ HasKey(b, "Preamble")
         /\ IsPrefix(a.Preamble, b.Preamble)
TreeKept(h, h2) ==
    /\ Len(h) <= Len(h2)
    /\ \A c \in 1..Len(h) : RootKept(h[c], h2[c])

\* 1 if the condition holds, else 0
Count(cond) == IF cond THEN 1 ELSE 0

(***************************************************************************)
(* C6.  Every processed line leaves each node of the tree where it is,     *)
(* with the children it had at the head of its list, and adds exactly one  *)
(* Dieu for a Dieu header, one Khoan for a Clause line under an open Dieu, *)
(* one Muc for a Point line under an open Khoan, as the last element of    *)
(* the list of the open parent, labelled from that line: lists grow at     *)
(* their end in the order of the source lines, and nothing is reordered,   *)
(* merged or deduplicated.                                                 *)
(***************************************************************************)
C6_AppendedInSourceOrder ==
    [][(pc = "parse" /\ i <= Len(lines)) =>
          /\ LineStep
          /\ TreeKept(hierarchy, hierarchy')
          /\ Cardinality(DieuPaths(hierarchy')) =
                 Cardinality(DieuPaths(hierarchy)) + Count(IsDieuHdr(i))
          /\ Cardinality(KhoanPaths(hierarchy')) =
                 Cardinality(KhoanPaths(hierarchy))
                     + Count(~IsHdr(i) /\ KhoanMatch(Ln(i)) /\ ArticleOpenAt(i))
          /\ Cardinality(MucPaths(hierarchy')) =
                 Cardinality(MucPaths(hierarchy))
                     + Count(~IsHdr(i) /\ MucMatch(Ln(i)) /\ ClauseOpenAt(i))
          /\ IsDieuHdr(i) =>
                 Last(Last(hierarchy').Dieu).Dieu =
                     DieuAscii \o <<SP>> \o DieuNumber(Ln(i))
          /\ (~IsHdr(i) /\ KhoanMatch(Ln(i)) /\ ArticleOpenAt(i)) =>
                 Last(Last(Last(hierarchy').Dieu).Khoan).Khoan =
                     KhoanAscii \o <<SP>> \o KhoanNumber(Ln(i))
          /\ (~IsHdr(i) /\ MucMatch(Ln(i)) /\ ClauseOpenAt(i)) =>
                 Last(Last(Last(Last(hierarchy').Dieu).Khoan).Muc).Muc =
                     MucAscii \o <<SP>> \o MucLetter(Ln(i))]_vars

\* two Dieu headers with the same number gave two Dieu in source order, the
\* second with two Khoan of the same number
C6_Witness ==
    /\ pc = "parse"
    /\ Len(hierarchy) = 1
    /\ HasKey(hierarchy[1], "Chuong")
    /\ Len(hierarchy[1].Dieu) = 2
    /\ hierarchy[1].Dieu[1].Dieu = hierarchy[1].Dieu[2].Dieu
    /\ hierarchy[1].Dieu[1].Khoan = <<>>
    /\ Len(hierarchy[1].Dieu[2].Khoan) = 2
    /\ hierarchy[1].Dieu[2].Khoan[1].Khoan = hierarchy[1].Dieu[2].Khoan[2].Khoan

\* every root is a Chuong or a Preamble dict, every element of a Dieu list a
\* Dieu, of a Khoan list a Khoan, of a Muc list a Muc
WellFormed(h) ==
    /\ \A c \in 1..Len(h) : HasKey(h[c], "Chuong") \/ HasKey(h[c], "Preamble")
    /\ \A dp \in DieuPaths(h) : DOMAIN DieuAt(h, dp) = {"Dieu", "Content", "Khoan"}
    /\ \A kp \in KhoanPaths(h) : DOMAIN KhoanAt(h, kp) = {"Khoan", "Content", "Muc"}
    /\ \A mp \in MucPaths(h) : DOMAIN MucAt(h, mp) = {"Muc", "Content"}

(***************************************************************************)
(* C7.  parse_text is total and terminating: no step raises; while the     *)
(* call runs the index is within the lines or just past them; every step   *)
(* within the lines reads exactly one line and moves to the next, so the   *)
(* distance to the end of the lines decreases with every step; the step    *)
(* past the last line returns a well-formed tree, the empty root list when *)
(* no line is non-empty.                                                   *)
(***************************************************************************)
C7_TotalAndTerminating ==
    [][/\ err = FALSE /\ err' = FALSE
       /\ pc # "error" /\ pc' # "error"
       /\ pc' = "parse" => i' \in 1..(Len(lines') + 1)
       /\ pc = "parse" =>
             IF i <= Len(lines)
             THEN /\ LineStep
                  /\ lines' = lines
                  /\ Len(lines') + 1 - i' < Len(lines) + 1 - i
             ELSE /\ pc' = "rows"
                  /\ \E k \in 1..Len(hierarchical_structures') :
                        /\ hierarchical_structures'[k].key = data[r].subject
                        /\ hierarchical_structures'[k].value = hierarchy
                  /\ WellFormed(hierarchy)
                  /\ (\A j \in 1..Len(lines) : Ln(j) = <<>>) => hierarchy = <<>>]_vars

\* a text of blank lines only was parsed to the empty root list
C7_Witness ==
    /\ pc = "rows"
    /\ r = 2
    /\ Len(Split(data[1].text)) >= 2
    /\ \A j \in 1..Len(Split(data[1].text)) : Strip(Split(data[1].text)[j]) = <<>>
    /\ hierarchical_structures = <<[key |-> data[1].subject, value |-> <<>>]>>

\* the Dieu headers of a text
ArticlesInText(text) ==
    Cardinality({j \in 1..Len(Split(text)) :
                    LET l == Strip(Split(text)[j])
                    IN  l # <<>> /\ ~ChuongMatch(l) /\ DieuMatch(l)})

RECURSIVE ArticlesInRows(_)
ArticlesInRows(rs) ==
    IF Len(rs) = 0 THEN 0
    ELSE ArticlesInText(Head(rs).text) + ArticlesInRows(Tail(rs))

(***************************************************************************)
(* C8.  The number of emitted records equals the total number of Dieu of   *)
(* all the input documents the loader kept, also when two of them carry    *)
(* the same law identifier.                                                *)
(***************************************************************************)
C8_EveryDocumentEmitted ==
    pc = "done" => Len(documents) = ArticlesInRows(data)

\* the (law, Dieu) pairs of the parsed laws, in the order of the loops of
\* lines 134-140
RECURSIVE LawDieu(_)
LawDieu(d) ==
    IF Len(d) = 0 THEN <<>>
    ELSE [a \in 1..Len(DieuOf(Head(d).value)) |->
             [law |-> Head(d).key, dieu |-> DieuOf(Head(d).value)[a]]]
         \o LawDieu(Tail(d))

RECURSIVE DieuInLaws(_)
DieuInLaws(d) ==
    IF Len(d) = 0 THEN 0
    ELSE Cardinality(DieuPaths(Head(d).value)) + DieuInLaws(Tail(d))

(***************************************************************************)
(* C9.  There is one record per Dieu under a Chuong of a parsed law and    *)
(* none for a Preamble root; the record of the Dieu numbered n of the law  *)
(* L has title "Dieu n" (with its marks), content the post-processed       *)
(* rendering with kdm=False, citation the title, a space and L, and law L; *)
(* its node has that content as text and the metadata name, type, citation *)
(* and law.                                                                *)
(***************************************************************************)
C9_RecordFields ==
    pc = "done" =>
        /\ Len(documents) = DieuInLaws(hierarchical_structures)
        /\ Len(documents) = Len(LawDieu(hierarchical_structures))
        /\ Len(nodes) = Len(documents)
        /\ \A k \in 1..Len(documents) :
              LET ld == LawDieu(hierarchical_structures)[k]
                  title == DieuKw \o <<SP>> \o LabelNumber(ld.dieu.Dieu, DieuAscii)
              IN  /\ documents[k] =
                         [title |-> title,
                          content |-> PostProcess(
                                          get_text_from_structure(ld.dieu, FALSE)),
                          citation |-> title \o <<SP>> \o ld.law,
                          law |-> ld.law]
                  /\ nodes[k] =
                         [text |-> documents[k].content,
                          metadata |-> [name |-> title, type |-> DieuKw,
                                        citation |-> title \o <<SP>> \o ld.law,
                                        law |-> ld.law]]

\* two laws were emitted, the first with a Preamble root and two Dieu
C9_Witness ==
    /\ pc = "done"
    /\ Len(hierarchical_structures) = 2
    /\ PreambleIdx(hierarchical_structures[1].value) # {}
    /\ Len(DieuOf(hierarchical_structures[1].value)) = 2
    /\ Len(documents) > 2
    /\ documents[1].law # documents[Len(documents)].law

\* the plain line is added to the content of the last Dieu of the last root
AddedToArticle(h, h2, line) ==
    /\ Len(h) > 0
    /\ HasKey(Last(h), "Chuong")
    /\ Len(Last(h).Dieu) > 0
    /\ h2 = [h EXCEPT ![Len(h)].Dieu[Len(Last(h).Dieu)].Content = @ \o <<SP>> \o line]

(***************************************************************************)
(* C10.  A line that matches the Point pattern while no Clause is open (no *)
(* Clause line since the last header, or no Dieu open at all) creates no   *)
(* Muc node, nor any other node under a Chuong: the whole line is added as *)
(* plain content to the open Dieu, otherwise to the free content of the    *)
(* open Chuong, otherwise to Preamble content; and the tree stays          *)
(* well-formed, every Muc in the list of a Khoan and every Khoan in the    *)
(* list of a Dieu.                                                         *)
(***************************************************************************)
C10_PointLineOutsideClause ==
    /\ pc = "parse"
    /\ i <= Len(lines)
    /\ MucMatch(Ln(i))
    /\ ~ClauseOpenAt(i)

C10_NoPointWithoutClause ==
    [][C10_PointLineOutsideClause =>
          /\ LineStep
          /\ MucPaths(hierarchy') = MucPaths(hierarchy)
          /\ KhoanPaths(hierarchy') = KhoanPaths(hierarchy)
          /\ DieuPaths(hierarchy') = DieuPaths(hierarchy)
          /\ ChuongIdx(hierarchy') = ChuongIdx(hierarchy)
          /\ WellFormed(hierarchy')
          /\ IF ArticleOpenAt(i)
             THEN AddedToArticle(hierarchy, hierarchy', Ln(i))
             ELSE IF ChapterOpenAt(i)
             THEN AddedToChapter(hierarchy, hierarchy', Ln(i))
             ELSE AddedToPreamble(hierarchy, hierarchy', Ln(i))]_vars

\* a Point-pattern line was read directly after a Dieu header whose
\* predecessor has a Khoan, and sits in the content of the new Dieu
C10_Witness ==
    /\ pc = "parse"
    /\ i > 2
    /\ IsDieuHdr(i - 2)
    /\ MucMatch(Ln(i - 1))
    /\ Len(hierarchy) = 1
    /\ HasKey(hierarchy[1], "Chuong")
    /\ Len(hierarchy[1].Dieu) = 2
    /\ Len(hierarchy[1].Dieu[1].Khoan) > 0
    /\ hierarchy[1].Dieu[2].Khoan = <<>>
    /\ EndsWith(hierarchy[1].Dieu[2].Content, <<SP>> \o Ln(i - 1))
    /\ MucPaths(hierarchy) = {}

\* the lines of the rendering without expansion, written out character by
\* character
PlainClauseLine(khoan) ==
    LabelNumber(khoan.Khoan, KhoanAscii) \o <<".", SP>> \o khoan.Content \o <<NL>>
PlainPointLine(muc) ==
    LabelNumber(muc.Muc, MucAscii) \o <<")", SP>> \o muc.Content \o <<NL>>
PlainText(dieu) ==
    DieuKw \o <<SP>> \o LabelNumber(dieu.Dieu, DieuAscii) \o <<".", SP>>
        \o dieu.Content \o <<NL>>
        \o ConcatAll([k \in 1..Len(dieu.Khoan) |->
              PlainClauseLine(dieu.Khoan[k])
                  \o ConcatAll([m \in 1..Len(dieu.Khoan[k].Muc) |->
                        PlainPointLine(dieu.Khoan[k].Muc[m])])])

(***************************************************************************)
(* C11.  With kdm=False the rendering of a Dieu is the header line         *)
(* "Dieu <number>. <content>", then for each Khoan in order the line       *)
(* "<clause number>. <content>" directly followed by one line              *)
(* "<letter>) <content>" for each Muc of that Khoan in order, each line    *)
(* ended by a line break and none carrying a citation prefix.              *)
(***************************************************************************)
C11_PlainRendering ==
    (rendered # None /\ ~rendered.kdm) =>
        rendered.text = PlainText(rendered.dieu)

\* a Dieu with two Khoan, the first with a Muc, was rendered with kdm=False
C11_Witness ==
    /\ rendered # None
    /\ ~rendered.kdm
    /\ Len(rendered.dieu.Khoan) = 2
    /\ Len(rendered.dieu.Khoan[1].Muc) = 1

\* the markers as phrases of the text: "Muc " (with its mark) and a digit;
\* "Luat nay ", an optional "da ", "duoc Quoc hoi" (with their marks)
HasSubHeadingMarker(s) ==
    \E p \in 1..Len(s) :
        /\ LitAt(s, p, MucMarkerKw)
        /\ p + Len(MucMarkerKw) <= Len(s)
        /\ s[p + Len(MucMarkerKw)] \in Digit
HasEnactmentMarker(s) ==
    \/ Contains(s, LuatNay \o DuocQuocHoi)
    \/ Contains(s, LuatNay \o DaOpt \o DuocQuocHoi)

\* the rendering the emission loop started from for its k-th record
RenderedFor(k) ==
    get_text_from_structure(LawDieu(hierarchical_structures)[k].dieu, FALSE)

(***************************************************************************)
(* C12.  A rendered text that holds neither the sub-heading marker nor the *)
(* enactment marker leaves post-processing unchanged: the content of its   *)
(* record is the rendered text, character for character.                   *)
(***************************************************************************)
C12_NoMarkerNoChange ==
    pc = "done" =>
        \A k \in 1..Len(documents) :
            (~HasSubHeadingMarker(RenderedFor(k)) /\ ~HasEnactmentMarker(RenderedFor(k)))
                => documents[k].content = RenderedFor(k)

\* one run emitted a record that was cut at a marker and a record of several
\* lines without a marker, emitted as rendered
C12_Witness ==
    /\ pc = "done"
    /\ \E k \in 1..Len(documents) :
          /\ HasEnactmentMarker(RenderedFor(k))
          /\ documents[k].content # RenderedFor(k)
    /\ \E k \in 1..Len(documents) :
          /\ ~HasSubHeadingMarker(RenderedFor(k))
          /\ ~HasEnactmentMarker(RenderedFor(k))
          /\ Len(LawDieu(hierarchical_structures)[k].dieu.Khoan) > 0
          /\ documents[k].content = RenderedFor(k)

LineBreaks(s) == Cardinality({p \in 1..Len(s) : s[p] = NL})
PointsOf(dieu) ==
    UNION {{<<k, m>> : m \in 1..Len(dieu.Khoan[k].Muc)} : k \in 1..Len(dieu.Khoan)}

(***************************************************************************)
(* C14.  For a Dieu produced by parse_text and either value of kdm, the    *)
(* rendered text holds exactly 1 + (number of Khoan) + (number of Muc)     *)
(* line breaks and ends with a line break, and no content of the Dieu, of  *)
(* its Khoan or of their Muc holds a line break.                           *)
(***************************************************************************)
C14_OneLineBreakPerLine ==
    rendered # None =>
        /\ LineBreaks(rendered.text) =
               1 + Len(rendered.dieu.Khoan) + Cardinality(PointsOf(rendered.dieu))
        /\ Last(rendered.text) = NL
        /\ LineBreaks(rendered.dieu.Content) = 0
        /\ \A k \in 1..Len(rendered.dieu.Khoan) :
              /\ LineBreaks(rendered.dieu.Khoan[k].Content) = 0
              /\ \A m \in 1..Len(rendered.dieu.Khoan[k].Muc) :
                    LineBreaks(rendered.dieu.Khoan[k].Muc[m].Content) = 0

\* a Dieu whose content took a plain line of the source, with a Khoan and a
\* Muc, was rendered with kdm=True: four source lines, three rendered lines
C14_Witness ==
    /\ rendered # None
    /\ rendered.kdm
    /\ Contains(rendered.dieu.Content, <<SP>> \o SubHeadLn)
    /\ Len(rendered.dieu.Khoan) = 1
    /\ Len(rendered.dieu.Khoan[1].Muc) = 1
    /\ LineBreaks(rendered.text) = 3

\* a text without a Chuong header and without a Dieu header; its non-empty
\* stripped lines; strings joined by single spaces
NoHeaders(ls) ==
    \A j \in 1..Len(ls) :
        LET l == Strip(ls[j])
        IN  l = <<>> \/ (~ChuongMatch(l) /\ ~DieuMatch(l))
NonEmptyLines(ls) ==
    SelectSeq([j \in 1..Len(ls) |-> Strip(ls[j])], LAMBDA l : l # <<>>)
RECURSIVE JoinSp(_)
JoinSp(ss) ==
    IF Len(ss) = 0 THEN <<>>
    ELSE IF Len(ss) = 1 THEN ss[1]
    ELSE ss[1] \o <<SP>> \o JoinSp(Tail(ss))

(***************************************************************************)
(* C15.  A text with no Chuong header and no Dieu header is parsed without *)
(* any failure; after each of its lines the tree holds Preamble roots only *)
(* (no Chuong, Dieu, Khoan or Muc node), and their contents, in order and  *)
(* joined by spaces, are the non-empty lines read so far joined by spaces; *)
(* the tree yields no record, and a script whose kept rows are all of this *)
(* kind ends with no record and no node.                                   *)
(***************************************************************************)
C15_NoHeadersNoRecords ==
    /\ (pc \in {"parse", "error"} /\ NoHeaders(lines)) =>
           /\ pc = "parse"
           /\ err = FALSE
           /\ \A c \in 1..Len(hierarchy) : DOMAIN hierarchy[c] = {"Preamble"}
           /\ JoinSp([c \in 1..Len(hierarchy) |-> hierarchy[c].Preamble]) =
                  JoinSp(NonEmptyLines(SubSeq(lines, 1, i - 1)))
           /\ DocsOfLaw(data[r].subject, hierarchy) = <<>>
    /\ (pc = "done" /\ \A k \in 1..Len(data) : NoHeaders(Split(data[k].text))) =>
           /\ documents = <<>>
           /\ nodes = <<>>

\* a text of a Clause line, a blank line, a Point line and a plain line was
\* parsed and the script ended without a record
C15_Witness ==
    /\ pc = "done"
    /\ Len(data) = 1
    /\ NoHeaders(Split(data[1].text))
    /\ NonEmptyLines(Split(data[1].text)) = <<KhoanLn, MucLn, SubHeadLn>>
    /\ Len(Split(data[1].text)) = 4
    /\ Len(hierarchical_structures) = 1
    /\ PreambleIdx(hierarchical_structures[1].value) # {}
    /\ documents = <<>>
    /\ nodes = <<>>

\* the frame a call run alone on the same lines has after k iterations
RECURSIVE AloneAfter(_, _)
AloneAfter(ls, k) ==
    IF k = 0 THEN [NewFrame(<<>>) EXCEPT !.lines = ls]
    ELSE ParseLine(AloneAfter(ls, k - 1))

(***************************************************************************)
(* C16.  Two calls of parse_text whose per-line steps interleave in any    *)
(* order do not disturb each other: at every moment the frame of each call *)
(* (root list, four open-node pointers, position) is the frame the call    *)
(* would have after the same number of lines when run alone, no call       *)
(* fails, and the tree a call returns is the tree of the call run alone on *)
(* its text.                                                               *)
(***************************************************************************)
C16_CallsIndependent ==
    pc = "par" =>
        \A p \in Callers :
            /\ ~frames[p].err
            /\ [frames[p] EXCEPT !.returned = FALSE] =
                   AloneAfter(frames[p].lines, frames[p].i - 1)
            /\ frames[p].returned =>
                   frames[p].hierarchy = parse_text(JoinLines(frames[p].lines))

\* both calls have returned: the first built a Dieu with a Khoan, the second
\* read a Clause line and a Point line and built Preamble roots only
C16_Witness ==
    /\ pc = "par"
    /\ \A p \in Callers : frames[p].returned
    /\ frames[1].lines = <<DieuLn, KhoanLn>>
    /\ frames[2].lines = <<KhoanLn, MucLn>>
    /\ KhoanPaths(frames[1].hierarchy) # {}
    /\ ChuongIdx(frames[2].hierarchy) = {}
    /\ Len(frames[2].hierarchy) = 2

\* the phrase w stands somewhere in x
HasPhrase(x, w) ==
    \E p \in 1..(Len(x) - Len(w) + 1) : SubSeq(x, p, p + Len(w) - 1) = w

\* a subject with "moi nhat" and without "sua doi" (with their marks)
LatestNotAmended(x) == HasPhrase(x, MoiNhat) /\ ~HasPhrase(x, SuaDoi)

\* the rows with such a subject, in their order
RECURSIVE RowsToKeep(_)
RowsToKeep(rs) ==
    IF Len(rs) = 0 THEN <<>>
    ELSE (IF LatestNotAmended(Head(rs).subject) THEN <<Head(rs)>> ELSE <<>>)
             \o RowsToKeep(Tail(rs))

\* "Luat Dat dai 2024 (sua doi)" and "Luat Dat dai 2024 (moi nhat)", with
\* their marks
LandLawAmended ==
    <<"L", "u", "a65", "t", " ", "D9", "a61", "t", " ", "d9", "a", "i", " ",
      "2", "0", "2", "4", " ", "(">> \o SuaDoi \o <<")">>
LandLawLatest ==
    <<"L", "u", "a65", "t", " ", "D9", "a61", "t", " ", "d9", "a", "i", " ",
      "2", "0", "2", "4", " ", "(">> \o MoiNhat \o <<")">>

(***************************************************************************)
(* C17.  After loading, data is exactly the input rows whose subject holds *)
(* "moi nhat" and does not hold "sua doi", in their order; only such rows  *)
(* are parsed, stored and emitted, and every one of them is stored; the    *)
(* subject "Luat Dat dai 2024 (sua doi)" is dropped and "Luat Dat dai 2024 *)
(* (moi nhat)" is kept.                                                    *)
(***************************************************************************)
C17_LoaderFilter ==
    /\ ~KeepSubject(LandLawAmended)
    /\ KeepSubject(LandLawLatest)
    /\ pc \in {"rows", "parse", "emit", "done"} =>
          /\ data = RowsToKeep(rows)
          /\ \A l \in 1..Len(hierarchical_structures) :
                /\ LatestNotAmended(hierarchical_structures[l].key)
                /\ \E k \in 1..Len(rows) :
                      rows[k].subject = hierarchical_structures[l].key
          /\ \A k \in 1..Len(documents) : LatestNotAmended(documents[k].law)
    /\ pc = "parse" =>
          /\ LatestNotAmended(data[r].subject)
          /\ lines = Split(data[r].text)
    /\ pc \in {"emit", "done"} =>
          \A k \in 1..Len(rows) :
              LatestNotAmended(rows[k].subject) <=>
                  \E l \in 1..Len(hierarchical_structures) :
                      hierarchical_structures[l].key = rows[k].subject

\* of two rows with a Dieu each, the amended one was dropped and the other
\* gave the only record
C17_Witness ==
    /\ pc = "done"
    /\ Len(rows) = 2
    /\ rows[1].subject = SubjAmended
    /\ rows[2].subject = SubjA
    /\ ArticlesInText(rows[1].text) = 1
    /\ data = <<rows[2]>>
    /\ Len(documents) = 1
    /\ documents[1].law = SubjA

\* the depth state of the builder: the innermost open node
\* (0 none, 1 chapter, 2 article, 3 clause, 4 point)
Depth ==
    IF current_muc # None THEN 4
    ELSE IF current_khoan # None THEN 3
    ELSE IF current_dieu # None THEN 2
    ELSE IF current_chuong # None THEN 1
    ELSE 0

\* the nodes under the roots of a tree, Chuong roots included
NodeCount(h) ==
    Cardinality(ChuongIdx(h)) + Cardinality(DieuPaths(h))
        + Cardinality(KhoanPaths(h)) + Cardinality(MucPaths(h))

(***************************************************************************)
(* C18, as claimed.  Every processed line either moves the builder to a    *)
(* deeper depth state while creating a node, or leaves the builder at a    *)
(* depth state that is not shallower than before.                          *)
(***************************************************************************)
C18_NeverShallower ==
    [][(pc = "parse" /\ i <= Len(lines)) =>
          /\ LineStep
          /\ Depth' >= Depth
          /\ Depth' > Depth => NodeCount(hierarchy') > NodeCount(hierarchy)]_vars

(***************************************************************************)
(* C18, amended.  Every processed line either creates a node and moves the *)
(* builder to the depth of that node (chapter for a Chuong header, article *)
(* for a Dieu header, clause for a Clause line under an open Dieu, point   *)
(* for a Point line under an open Khoan), which closes every deeper node   *)
(* that was open and so may be shallower than the depth before; or, for a  *)
(* blank line, a plain line and a Clause or Point line rejected to plain,  *)
(* creates no node and leaves the depth state and the four pointers as     *)
(* they were.                                                              *)
(***************************************************************************)
C18_DepthFollowsLine ==
    [][(pc = "parse" /\ i <= Len(lines)) =>
          /\ LineStep
          /\ IF IsChuongHdr(i)
             THEN /\ Depth' = 1
                  /\ Cardinality(ChuongIdx(hierarchy')) =
                         Cardinality(ChuongIdx(hierarchy)) + 1
             ELSE IF IsDieuHdr(i)
             THEN /\ Depth' = 2
                  /\ Cardinality(DieuPaths(hierarchy')) =
                         Cardinality(DieuPaths(hierarchy)) + 1
             ELSE IF KhoanMatch(Ln(i)) /\ Depth >= 2
             THEN /\ Depth' = 3
                  /\ Cardinality(KhoanPaths(hierarchy')) =
                         Cardinality(KhoanPaths(hierarchy)) + 1
             ELSE IF MucMatch(Ln(i)) /\ Depth >= 3
             THEN /\ Depth' = 4
                  /\ Cardinality(MucPaths(hierarchy')) =
                         Cardinality(MucPaths(hierarchy)) + 1
             ELSE /\ Depth' = Depth
                  /\ UNCHANGED <<current_chuong, current_dieu, current_khoan,
                                 current_muc>>
                  /\ NodeCount(hierarchy') = NodeCount(hierarchy)]_vars

\* a Chuong header read at depth point brought the builder back to depth
\* chapter
C18_Witness ==
    /\ pc = "parse"
    /\ i = 5
    /\ IsDieuHdr(1)
    /\ KhoanMatch(Ln(2))
    /\ MucMatch(Ln(3))
    /\ IsChuongHdr(4)
    /\ MucPaths(hierarchy) # {}
    /\ Depth = 1

\* the remainder of a Dieu header after the matched prefix, without its
\* leading periods and spaces and without its trailing spaces
RemainderTrimmed(line) ==
    LET rest == From(line, DieuEnd(line))
    IN  StripChars(From(rest, RunEnd(rest, 1, {".", SP})), {SP})

(***************************************************************************)
(* C19.  The content of the Dieu created by a Dieu header is the remainder *)
(* of the line after the matched "Dieu <number>" with only its leading     *)
(* periods and spaces and its trailing spaces removed: a period at the end *)
(* of the remainder stays in the content.                                  *)
(***************************************************************************)
C19_ContentKeepsFinalPeriod ==
    [][(pc = "parse" /\ i <= Len(lines) /\ IsDieuHdr(i)) =>
          Last(Last(hierarchy').Dieu).Content = RemainderTrimmed(Ln(i))]_vars

\* the line read is neither blank nor accepted as a header, a Clause or a
\* Point: a Plain line, or a Clause or Point line rejected to plain
PlainAt ==
    /\ pc = "parse"
    /\ i <= Len(lines)
    /\ Ln(i) # <<>>
    /\ ~IsHdr(i)
    /\ ~(KhoanMatch(Ln(i)) /\ current_dieu # None)
    /\ ~(MucMatch(Ln(i)) /\ current_khoan # None)

\* the tree h with the content of exactly one node, the innermost open one,
\* longer by a space and the line; with nothing open the node is the Preamble,
\* created with the line as its content when the tree has none
ExtendedInnermost(h, line) ==
    IF current_muc # None
    THEN [h EXCEPT ![current_muc[1]].Dieu[current_muc[2]].Khoan[current_muc[3]]
                        .Muc[current_muc[4]].Content = @ \o <<SP>> \o line]
    ELSE IF current_khoan # None
    THEN [h EXCEPT ![current_khoan[1]].Dieu[current_khoan[2]]
                        .Khoan[current_khoan[3]].Content = @ \o <<SP>> \o line]
    ELSE IF current_dieu # None
    THEN [h EXCEPT ![current_dieu[1]].Dieu[current_dieu[2]].Content =
                       @ \o <<SP>> \o line]
    ELSE IF current_chuong # None
    THEN [h EXCEPT ![current_chuong[1]] =
                       SetContent(@, GetContent(@) \o <<SP>> \o line)]
    ELSE IF PreambleIdx(h) = {}
    THEN Append(h, [Preamble |-> line])
    ELSE LET c == CHOOSE x \in PreambleIdx(h) : \A y \in PreambleIdx(h) : y <= x
         IN  [h EXCEPT ![c].Preamble = @ \o <<SP>> \o line]

(***************************************************************************)
(* C20.  A Plain line, or a Clause or Point line rejected to plain,        *)
(* extends the content of exactly one node, the innermost open one in the  *)
(* order Muc, Khoan, Dieu, free content of the Chuong, Preamble, by a      *)
(* space and the line; every other content, every child list (the root     *)
(* list included) and the four open-node pointers stay as they were.       *)
(***************************************************************************)
C20_PlainExtendsOneNode ==
    [][PlainAt =>
          /\ LineStep
          /\ UNCHANGED <<current_chuong, current_dieu, current_khoan, current_muc>>
          /\ hierarchy' = ExtendedInnermost(hierarchy, Ln(i))]_vars

\* the last header before line k is a Chuong header
AfterChuongHdr(k) == LastHdr(k) # 0 /\ IsChuongHdr(LastHdr(k))

(***************************************************************************)
(* C21.  A Chuong header, whatever is open, appends a new Chuong with an   *)
(* empty Dieu list as the last root, makes it the open Chuong and clears   *)
(* the open Dieu, Khoan and Muc.  Every non-empty line after it that is    *)
(* not a header (plain, Clause pattern or Point pattern), up to the next   *)
(* header, is added to the free content of that Chuong, the last root, and *)
(* changes nothing else: no Dieu, Khoan or Muc of an earlier Chuong takes  *)
(* it.                                                                     *)
(***************************************************************************)
C21_ChapterClosesDeeperNodes ==
    [][(pc = "parse" /\ i <= Len(lines)) =>
          /\ IsChuongHdr(i) =>
                /\ hierarchy' = Append(hierarchy, [Chuong |-> Ln(i), Dieu |-> <<>>])
                /\ current_chuong' = <<Len(hierarchy')>>
                /\ current_dieu' = None
                /\ current_khoan' = None
                /\ current_muc' = None
          /\ (AfterChuongHdr(i) /\ Ln(i) # <<>> /\ ~IsHdr(i)) =>
                /\ AddedToChapter(hierarchy, hierarchy', Ln(i))
                /\ Last(hierarchy).Chuong = Ln(LastHdr(i))
                /\ Last(hierarchy).Dieu = <<>>]_vars

\* a Chuong header came while a Khoan was open, and the Clause-pattern line
\* after it went to the free content of the new Chuong
C21_Witness ==
    /\ pc = "parse"
    /\ i = 5
    /\ IsDieuHdr(1)
    /\ KhoanMatch(Ln(2))
    /\ IsChuongHdr(3)
    /\ KhoanMatch(Ln(4))
    /\ Len(hierarchy) = 2
    /\ Len(hierarchy[1].Dieu[1].Khoan) = 1
    /\ hierarchy[1].Dieu[1].Khoan[1].Content = KhoanContent(Ln(2))
    /\ GetContent(hierarchy[2]) = <<SP>> \o Ln(4)

\* the last Chuong header before line k, or 0
LastChuongHdr(k) ==
    IF \E j \in 1..(k - 1) : IsChuongHdr(j)
    THEN CHOOSE j \in 1..(k - 1) :
             IsChuongHdr(j) /\ \A x \in (j + 1)..(k - 1) : ~IsChuongHdr(x)
    ELSE 0

\* the Dieu a header line creates, with the content the step gave it
CreatedDieu(line, content) ==
    [Dieu |-> DieuAscii \o <<SP>> \o DieuNumber(line), Content |-> content,
     Khoan |-> <<>>]

(***************************************************************************)
(* C22.  Every Dieu header creates exactly one Dieu, with an empty Khoan   *)
(* list, as the last Dieu of the Chuong open at that moment and changes    *)
(* nothing else.  The open Chuong is the last root: the Chuong of the most *)
(* recent Chuong header, or the default Chuong when no Chuong header came  *)
(* before; when no header at all came before, the default Chuong is first  *)
(* appended to the roots.  So every root is a Chuong or a Preamble, never  *)
(* a Dieu, and no earlier Chuong takes the Dieu.                           *)
(***************************************************************************)
C22_ArticleIntoOpenChapter ==
    [][(pc = "parse" /\ i <= Len(lines) /\ IsDieuHdr(i)) =>
          /\ Len(hierarchy') > 0
          /\ HasKey(Last(hierarchy'), "Chuong")
          /\ Len(Last(hierarchy').Dieu) > 0
          /\ LET new == CreatedDieu(Ln(i), Last(Last(hierarchy').Dieu).Content)
             IN
              /\ IF ChapterOpenAt(i)
                 THEN /\ HasKey(Last(hierarchy), "Chuong")
                      /\ Last(hierarchy).Chuong =
                             IF LastChuongHdr(i) # 0 THEN Ln(LastChuongHdr(i))
                             ELSE Chuong0
                      /\ hierarchy' =
                             [hierarchy EXCEPT ![Len(hierarchy)].Dieu = Append(@, new)]
                 ELSE hierarchy' =
                          Append(hierarchy, [Chuong |-> Chuong0, Dieu |-> <<new>>])
              /\ \A c \in 1..Len(hierarchy') :
                    \/ DOMAIN hierarchy'[c] = {"Preamble"}
                    \/ DOMAIN hierarchy'[c] \in
                           {{"Chuong", "Dieu"}, {"Chuong", "Dieu", "Content"}}
              /\ current_chuong' = <<Len(hierarchy')>>
              /\ current_dieu' = <<Len(hierarchy'), Len(Last(hierarchy').Dieu)>>]_vars

\* a line before any header, a Dieu header, a Chuong header and a Dieu header
\* gave a Preamble, the default Chuong with one Dieu and the Chuong of the
\* header with one Dieu
C22_Witness ==
    /\ pc = "parse"
    /\ i = 5
    /\ IsDieuHdr(2)
    /\ IsChuongHdr(3)
    /\ IsDieuHdr(4)
    /\ Len(hierarchy) = 3
    /\ HasKey(hierarchy[1], "Preamble")
    /\ hierarchy[2].Chuong = Chuong0
    /\ Len(hierarchy[2].Dieu) = 1
    /\ hierarchy[3].Chuong = Ln(3)
    /\ Len(hierarchy[3].Dieu) = 1

(***************************************************************************)
(* C23.  While parse_text runs, before and after every line: an open Muc   *)
(* implies an open Khoan, an open Khoan an open Dieu, an open Dieu an open *)
(* Chuong; the open Chuong is the last root, the open Dieu the last Dieu   *)
(* of the open Chuong, the open Khoan the last Khoan of the open Dieu, the *)
(* open Muc the last Muc of the open Khoan.                                *)
(***************************************************************************)
C23_OpenNodesAreLast ==
    pc = "parse" =>
        /\ current_chuong # None =>
              /\ current_chuong = <<Len(hierarchy)>>
              /\ HasKey(Last(hierarchy), "Chuong")
        /\ current_dieu # None =>
              /\ current_chuong # None
              /\ current_dieu =
                     current_chuong \o <<Len(hierarchy[current_chuong[1]].Dieu)>>
              /\ Len(hierarchy[current_chuong[1]].Dieu) > 0
        /\ current_khoan # None =>
              /\ current_dieu # None
              /\ current_khoan =
                     current_dieu \o <<Len(DieuAt(hierarchy, current_dieu).Khoan)>>
              /\ Len(DieuAt(hierarchy, current_dieu).Khoan) > 0
        /\ current_muc # None =>
              /\ current_khoan # None
              /\ current_muc =
                     current_khoan \o <<Len(KhoanAt(hierarchy, current_khoan).Muc)>>
              /\ Len(KhoanAt(hierarchy, current_khoan).Muc) > 0

\* all four are open, the open Muc being the second Muc of its Khoan
C23_Witness ==
    /\ pc = "parse"
    /\ current_chuong = <<1>>
    /\ current_dieu = <<1, 1>>
    /\ current_khoan = <<1, 1, 1>>
    /\ current_muc = <<1, 1, 1, 2>>
    /\ Len(hierarchy[1].Dieu[1].Khoan[1].Muc) = 2

(***************************************************************************)
(* C24.  Post-processing is idempotent: the content of every record, which *)
(* is a rendered text after rule 1 and rule 2, is left unchanged by rule 1 *)
(* followed by rule 2.                                                     *)
(***************************************************************************)
C24_PostProcessIdempotent ==
    \A k \in 1..Len(documents) :
        PostProcess(documents[k].content) = documents[k].content

\* the default Chuong nodes of a tree, and the first header before line k
DefaultIdx(h) == {c \in ChuongIdx(h) : h[c].Chuong = Chuong0}
FirstHdr(k) ==
    IF \E j \in 1..(k - 1) : IsHdr(j)
    THEN CHOOSE j \in 1..(k - 1) : IsHdr(j) /\ \A x \in 1..(j - 1) : ~IsHdr(x)
    ELSE 0

\* the tree h built from the lines before line k has at most one default
\* Chuong, has one exactly when the first header of those lines is a Dieu
\* header, and has it before every other Chuong
DefaultChapterOnce(h, k) ==
    /\ Cardinality(DefaultIdx(h)) <= 1
    /\ DefaultIdx(h) # {} <=> (FirstHdr(k) # 0 /\ IsDieuHdr(FirstHdr(k)))
    /\ \A d \in DefaultIdx(h) : \A c \in ChuongIdx(h) : d <= c

(***************************************************************************)
(* C25.  After every line the tree holds at most one default Chuong; it is *)
(* there exactly when a Dieu header came before the first Chuong header;   *)
(* it stands before every Chuong of a header; and a line read while a      *)
(* Chuong is open leaves a Chuong open.                                    *)
(***************************************************************************)
C25_OneDefaultChapter ==
    [][(pc = "parse" /\ i <= Len(lines)) =>
          /\ LineStep
          /\ DefaultChapterOnce(hierarchy', i + 1)
          /\ current_chuong # None => current_chuong' # None
          /\ IsHdr(i) => current_chuong' # None]_vars

\* a line before any header, two Dieu headers and a Chuong header gave a
\* Preamble, one default Chuong with both Dieu, and the Chuong of the header
C25_Witness ==
    /\ pc = "parse"
    /\ i = 5
    /\ IsDieuHdr(2)
    /\ IsDieuHdr(3)
    /\ IsChuongHdr(4)
    /\ Len(hierarchy) = 3
    /\ DefaultIdx(hierarchy) = {2}
    /\ Len(hierarchy[2].Dieu) = 2
    /\ current_chuong = <<3>>

\* canonical lines: "Dieu <n>. <c>" with n digits and at most one lower-case
\* letter, "<k>. <t>" with k digits, "<x>) <t>" with x a letter; one space
\* after the period or the bracket; c and t non-empty, without white space at
\* either end, c without a period at either end
NoEdge(l, p, cls) == p <= Len(l) /\ l[p] \notin cls /\ Last(l) \notin cls
CanonHeader(l) ==
    /\ LitAt(l, 1, DieuKw \o <<SP>>)
    /\ LET a == Len(DieuKw) + 2
           d == RunEnd(l, a, Digit)
       IN  /\ d > a
           /\ \E x \in {d, d + 1} :
                 /\ x = d + 1 => (d <= Len(l) /\ l[d] \in LowerLetter)
                 /\ LitAt(l, x, <<".", SP>>)
                 /\ NoEdge(l, x + 2, Whitespace \cup {"."})
CanonClause(l) ==
    LET d == RunEnd(l, 1, Digit)
    IN  d > 1 /\ LitAt(l, d, <<".", SP>>) /\ NoEdge(l, d + 2, Whitespace)
CanonPoint(l) ==
    /\ Len(l) >= 4
    /\ l[1] \in AnyLetter
    /\ LitAt(l, 2, <<")", SP>>)
    /\ NoEdge(l, 4, Whitespace)

\* a text of one canonical Dieu header followed by canonical Clause lines and
\* canonical Point lines, every Point line after some Clause line
Canonical(text) ==
    LET ls == Split(text)
    IN  /\ CanonHeader(ls[1])
        /\ \A j \in 2..Len(ls) :
              \/ CanonClause(ls[j])
              \/ CanonPoint(ls[j]) /\ \E k \in 2..(j - 1) : CanonClause(ls[k])

(***************************************************************************)
(* C26.  Round trip.  When the only parsed text is canonical (one Dieu     *)
(* header, then Clause lines and Point lines under an open Khoan, no blank *)
(* line and no continuation line), rendering its Dieu with kdm=False gives *)
(* the text back, followed by exactly one line break.                      *)
(***************************************************************************)
C26_RoundTrip ==
    (rendered # None /\ ~rendered.kdm /\ Len(data) = 1 /\ Canonical(data[1].text))
        => rendered.text = data[1].text \o <<NL>>

\* the Dieu of the four-line text with a two-digit number with a letter,
\* two Khoan and a Muc was rendered with kdm=False
C26_Witness ==
    /\ rendered # None
    /\ ~rendered.kdm
    /\ Len(data) = 1
    /\ data[1].text = RoundTripText
    /\ Canonical(data[1].text)
    /\ Len(rendered.dieu.Khoan) = 2
    /\ Len(rendered.dieu.Khoan[1].Muc) = 1

(***************************************************************************)
(* TEIChromaStore (src/troly_dontu/tei_vector_store.py).  A collection is  *)
(* the sequence of its stored ids, in insertion order; an id is a sequence *)
(* of characters.  Texts, metadata and embeddings do not take part in id   *)
(* generation: a call is described by the number of its texts, its ids     *)
(* argument and its batch size.                                            *)
(***************************************************************************)
MaxTexts == 2
MaxStored == 4

DigitChars == <<"0", "1", "2", "3", "4", "5", "6", "7", "8", "9">>

\* str(n) inside the f-string
RECURSIVE Decimal(_)
Decimal(n) ==
    IF n < 10 THEN <<DigitChars[n + 1]>>
    ELSE Decimal(n \div 10) \o <<DigitChars[(n % 10) + 1]>>

\* f"tei_{start + i}"
TeiId(n) == <<"t", "e", "i", "_">> \o Decimal(n)

\* [f"tei_{start + i}" for i in range(n)]
GeneratedIds(start, n) == [k \in 1..n |-> TeiId(start + k - 1)]

Elems(s) == {s[k] : k \in 1..Len(s)}
NoDup(s) == \A j, k \in 1..Len(s) : j # k => s[j] # s[k]

RECURSIVE Fresh(_, _)
Fresh(ids, col) ==
    IF ids = <<>> THEN <<>>
    ELSE (IF ids[1] \in Elems(col) THEN <<>> ELSE <<ids[1]>>)
            \o Fresh(Tail(ids), col)

\* what the installed chromadb does with an id that is already stored:
\* reject the whole add, or keep the stored record and drop the new one
Policies == {"raise", "ignore"}

\* self.col.add(ids=...): an empty id list and an id repeated inside the
\* list are rejected; ids already stored are handled by the policy
ColAdd(col, ids, policy) ==
    IF ids = <<>> \/ ~NoDup(ids) THEN [ids |-> col, raised |-> TRUE]
    ELSE IF Elems(ids) \cap Elems(col) = {} THEN
        [ids |-> col \o ids, raised |-> FALSE]
    ELSE IF policy = "raise" THEN [ids |-> col, raised |-> TRUE]
    ELSE [ids |-> col \o Fresh(ids, col), raised |-> FALSE]

Smaller(a, b) == IF a < b THEN a ELSE b

\* the loop of lines 47-57: one add per batch, the first add that raises
\* ends the call
RECURSIVE AddBatches(_, _, _, _)
AddBatches(col, ids, batch_size, policy) ==
    IF ids = <<>> THEN [ids |-> col, raised |-> FALSE]
    ELSE LET c == Smaller(batch_size, Len(ids))
             a == ColAdd(col, SubSeq(ids, 1, c), policy)
         IN  IF a.raised THEN a
             ELSE AddBatches(a.ids, SubSeq(ids, c + 1, Len(ids)),
                             batch_size, policy)

\* ids the callers supply, and the batch sizes they pass (64 is the default)
CallerIds == {TeiId(1), <<"x">>}
BatchSizes == {1, 64}
IdsArgs(n) == [1..n -> CallerIds]

\* add_texts(texts, ids=..., batch_size=...): given is FALSE for ids=None
add_texts(col, n, given, ids, batch_size, policy) ==
    IF n = 0 THEN [ids |-> col, raised |-> FALSE, auto |-> <<>>]
    ELSE LET start == Len(col)
             use == IF given THEN ids ELSE GeneratedIds(start, n)
             a == AddBatches(col, use, batch_size, policy)
         IN  [ids |-> a.ids, raised |-> a.raised,
              auto |-> IF given THEN <<>> ELSE use]

\* add_embeddings(embeddings, ids=...)
add_embeddings(col, n, given, ids, policy) ==
    LET start == Len(col)
        use == IF given THEN ids ELSE GeneratedIds(start, n)
        a == ColAdd(col, use, policy)
    IN  [ids |-> a.ids, raised |-> a.raised,
         auto |-> IF given THEN <<>> ELSE use]

AddTexts ==
    /\ pc = "store"
    /\ \E n \in 0..MaxTexts, given \in BOOLEAN, bs \in BatchSizes :
         \E ids \in IdsArgs(n) :
            /\ Len(store.ids) + n <= MaxStored
            /\ LET a == add_texts(store.ids, n, given, ids, bs, store.policy)
               IN  store' = [store EXCEPT !.ids = a.ids, !.raised = a.raised,
                                          !.auto = a.auto, !.op = "add_texts"]
    /\ UNCHANGED <<rows, data, r, pc, lines, i, hierarchy, current_chuong,
                   current_dieu, current_khoan, current_muc, err,
                   hierarchical_structures, e, documents, nodes, rendered,
                   calls, frames>>

AddEmbeddings ==
    /\ pc = "store"
    /\ \E n \in 0..MaxTexts, given \in BOOLEAN :
         \E ids \in IdsArgs(n) :
            /\ Len(store.ids) + n <= MaxStored
            /\ LET a == add_embeddings(store.ids, n, given, ids, store.policy)
               IN  store' = [store EXCEPT !.ids = a.ids, !.raised = a.raised,
                                          !.auto = a.auto,
                                          !.op = "add_embeddings"]
    /\ UNCHANGED <<rows, data, r, pc, lines, i, hierarchy, current_chuong,
                   current_dieu, current_khoan, current_muc, err,
                   hierarchical_structures, e, documents, nodes, rendered,
                   calls, frames>>

\* line 28: get_or_create_collection on a fresh path gives an empty collection
InitStore ==
    /\ store \in {[ids |-> <<>>, policy |-> p, raised |-> FALSE,
                   auto |-> <<>>, op |-> "init"] : p \in Policies}
    /\ pc = "store"
    /\ rows = <<>>
    /\ data = <<>>
    /\ r = 0
    /\ lines = <<>>
    /\ i = 0
    /\ hierarchy = <<>>
    /\ current_chuong = None
    /\ current_dieu = None
    /\ current_khoan = None
    /\ current_muc = None
    /\ err = FALSE
    /\ hierarchical_structures = <<>>
    /\ e = 0
    /\ documents = <<>>
    /\ nodes = <<>>
    /\ rendered = None
    /\ calls = 0
    /\ frames = <<>>

NextStore == AddTexts \/ AddEmbeddings

SpecStore == InitStore /\ [][NextStore]_vars

(***************************************************************************)
(* C27.  Generated ids are new.  In every call of add_texts or             *)
(* add_embeddings that generates its ids as tei_<count + i>, none of the   *)
(* generated ids equals an id stored in the collection before the call,    *)
(* and the stored ids stay pairwise different.                             *)
(***************************************************************************)
C27_GeneratedIdsFresh ==
    [][pc = "store" =>
          /\ Elems(store'.auto) \cap Elems(store.ids) = {}
          /\ NoDup(store'.ids)]_vars

\* a call generated tei_1 while tei_1, supplied by an earlier caller, was
\* stored
C27_Collision ==
    /\ pc = "store"
    /\ store.auto = <<TeiId(1)>>
    /\ store.ids = <<TeiId(1)>>

====
